---- MODULE Spec2Model ----
(***************************************************************************)
(* Code review agent: the orchestrator (backend/core/orchestrator.py), the *)
(* six review agents (backend/agents) and the structural tools             *)
(* (backend/tools), as a state machine.                                    *)
(*                                                                         *)
(* Conventions of the model                                                *)
(*  - a Python Optional / a missing dict key is a sequence of length 0 or  *)
(*    1: <<>> is None / key absent, <<v>> is the value v;                  *)
(*  - a line of text is a record: its text, its lengths, and `subs`, the   *)
(*    set of the substrings the program searches for that occur in the     *)
(*    lower-cased line (so `k in line.lower()` is k \in line.subs);        *)
(*  - scores are integers in half points (10.0 is 20, 0.5 is 1), the       *)
(*    overall score is in 1/120 points (10.0 is 1200), so that the mean of *)
(*    1..6 half-point scores is exact;                                     *)
(*  - a message built by string concatenation is the sequence of its       *)
(*    parts.                                                               *)
(***************************************************************************)
EXTENDS Integers, Sequences, FiniteSets, TLC

VARIABLES
  pc,              \* position of the running review() call
  code,            \* review(): argument code (a source text and what ast.parse makes of it)
  language,        \* review(): argument language
  include_agents,  \* review(): argument include_agents ([none |-> TRUE] is None)
  metrics,         \* results["metrics"]
  dependencies,    \* results["dependencies"]
  agent_results,   \* results["agent_results"]: dimension name -> agent result
  summary,         \* results["summary"]
  raised,          \* the exception review() raised, if any
  calls,           \* the Reviewer calls made so far, in order, each with its outcome
  probe,           \* input of the pure function under study (SpecScore)
  probe_out        \* its result

vars == <<pc, code, language, include_agents, metrics, dependencies,
          agent_results, summary, raised, calls, probe, probe_out>>

reviewVars == <<pc, code, language, include_agents, metrics, dependencies,
                agent_results, summary, raised, calls>>

probeVars == <<probe, probe_out>>

----------------------------------------------------------------------------
(* Generic helpers *)

Max2(a, b) == IF a >= b THEN a ELSE b

Min2(a, b) == IF a <= b THEN a ELSE b

Take(s, n) == SubSeq(s, 1, Min2(n, Len(s)))

\* an operator's arguments are passed unevaluated; Evaluated(v) is TRUE and
\* has v computed before the step that follows it (an evaluation order, not
\* a condition)
Evaluated(v) == v = v

Opt(o, default) == IF o = <<>> THEN default ELSE o[1]

RECURSIVE Repeat(_, _)
Repeat(x, n) == IF n <= 0 THEN <<>> ELSE <<x>> \o Repeat(x, n - 1)

RECURSIVE SumSeq(_)
SumSeq(s) == IF s = <<>> THEN 0 ELSE Head(s) + SumSeq(Tail(s))

\* k in line.lower()  /  k in line
Has(line, k) == k \in line.subs

HasAny(line, ks) == \E i \in 1..Len(ks) : Has(line, ks[i])

\* str.lower() on the language tags of the model
Lower(s) ==
  CASE s = "Python" -> "python"
    [] s = "PYTHON" -> "python"
    [] s = "JavaScript" -> "javascript"
    [] OTHER -> s

\* Python truthiness of a message string given as its parts
Truthy(msg) == \E i \in 1..Len(msg) : msg[i] /= ""

----------------------------------------------------------------------------
(* backend/tools/ast_analyzer.py *)

\* ast.walk(tree): the nodes of the tree, breadth first
RECURSIVE WalkQueue(_)
WalkQueue(queue) ==
  IF queue = <<>> THEN <<>>
  ELSE <<Head(queue)>> \o WalkQueue(Tail(queue) \o Head(queue).children)

Walk(tree) == WalkQueue(<<tree>>)

DecisionKinds == {"If", "For", "While", "Try", "With"}

\* visit_node(node, depth): one traversal updating the complexity dict
RECURSIVE visit_node(_, _, _)
RECURSIVE visit_children(_, _, _, _)
visit_node(node, depth, complexity) ==
  LET c1 == [complexity EXCEPT
               !.max_nesting = Max2(@, depth),
               !.cyclomatic = IF node.kind \in DecisionKinds THEN @ + 1 ELSE @,
               !.function_count = IF node.kind = "FunctionDef" THEN @ + 1 ELSE @,
               !.class_count = IF node.kind = "ClassDef" THEN @ + 1 ELSE @]
  IN visit_children(node.children, 1, depth + 1, c1)

visit_children(children, i, depth, complexity) ==
  IF i > Len(children) THEN complexity
  ELSE LET after == visit_node(children[i], depth, complexity)
       IN IF Evaluated(after) THEN visit_children(children, i + 1, depth, after)
          ELSE after

\* a variant that does not count a decision point inside another one
RECURSIVE visit_node_outermost(_, _, _, _)
RECURSIVE visit_children_outermost(_, _, _, _, _)
visit_node_outermost(node, depth, inside, complexity) ==
  LET decision == node.kind \in DecisionKinds
      c1 == [complexity EXCEPT
               !.max_nesting = Max2(@, depth),
               !.cyclomatic = IF decision /\ ~inside THEN @ + 1 ELSE @,
               !.function_count = IF node.kind = "FunctionDef" THEN @ + 1 ELSE @,
               !.class_count = IF node.kind = "ClassDef" THEN @ + 1 ELSE @]
  IN visit_children_outermost(node.children, 1, depth + 1, inside \/ decision, c1)

visit_children_outermost(children, i, depth, inside, complexity) ==
  IF i > Len(children) THEN complexity
  ELSE LET after == visit_node_outermost(children[i], depth, inside, complexity)
       IN IF Evaluated(after) THEN visit_children_outermost(children, i + 1, depth, inside, after)
          ELSE after

CalculateComplexity_outermost(tree) ==
  visit_node_outermost(tree, 0, FALSE,
             [cyclomatic |-> 1, max_nesting |-> 0, function_count |-> 0, class_count |-> 0])

\* a variant whose depth grows under decision points only
RECURSIVE visit_node_controlflow(_, _, _)
RECURSIVE visit_children_controlflow(_, _, _, _)
visit_node_controlflow(node, depth, complexity) ==
  LET c1 == [complexity EXCEPT
               !.max_nesting = Max2(@, depth),
               !.cyclomatic = IF node.kind \in DecisionKinds THEN @ + 1 ELSE @,
               !.function_count = IF node.kind = "FunctionDef" THEN @ + 1 ELSE @,
               !.class_count = IF node.kind = "ClassDef" THEN @ + 1 ELSE @]
  IN visit_children_controlflow(node.children, 1,
       IF node.kind \in DecisionKinds THEN depth + 1 ELSE depth, c1)

visit_children_controlflow(children, i, depth, complexity) ==
  IF i > Len(children) THEN complexity
  ELSE LET after == visit_node_controlflow(children[i], depth, complexity)
       IN IF Evaluated(after) THEN visit_children_controlflow(children, i + 1, depth, after)
          ELSE after

CalculateComplexity_controlflow(tree) ==
  visit_node_controlflow(tree, 0,
             [cyclomatic |-> 1, max_nesting |-> 0, function_count |-> 0, class_count |-> 0])

CalculateComplexity(tree) ==
  visit_node(tree, 0,
             [cyclomatic |-> 1, max_nesting |-> 0, function_count |-> 0, class_count |-> 0])

ExtractFunctions(tree) ==
  LET nodes == SelectSeq(Walk(tree), LAMBDA n : n.kind = "FunctionDef")
  IN [i \in 1..Len(nodes) |->
        [name |-> nodes[i].name, line |-> nodes[i].line,
         has_docstring |-> nodes[i].doc /= "none"]]

ExtractClasses(tree) ==
  LET nodes == SelectSeq(Walk(tree), LAMBDA n : n.kind = "ClassDef")
  IN [i \in 1..Len(nodes) |->
        [name |-> nodes[i].name, line |-> nodes[i].line,
         has_docstring |-> nodes[i].doc /= "none"]]

\* ASTAnalyzer.parse: ast.parse is the language's own parser, its outcome for
\* the text is src.parse
AstParse(src, lang) ==
  IF Lower(lang) /= "python"
  THEN [valid |-> FALSE, error |-> "AST analysis not yet supported", line |-> <<>>,
        functions |-> <<>>, classes |-> <<>>, complexity |-> <<>>, ast_tree |-> <<>>]
  ELSE IF src.parse.ok
  THEN [valid |-> TRUE, error |-> "", line |-> <<>>,
        functions |-> ExtractFunctions(src.parse.tree),
        classes |-> ExtractClasses(src.parse.tree),
        complexity |-> <<CalculateComplexity(src.parse.tree)>>,
        ast_tree |-> <<src.parse.tree>>]
  ELSE [valid |-> FALSE, error |-> src.parse.error, line |-> src.parse.errline,
        functions |-> <<>>, classes |-> <<>>, complexity |-> <<>>, ast_tree |-> <<>>]

----------------------------------------------------------------------------
(* backend/tools/metrics_calculator.py, backend/tools/dependency_checker.py *)

CalculateMetrics(src, lang) ==
  [total_lines |-> Len(src.lines),
   code_lines |-> Cardinality({i \in 1..Len(src.lines) : src.lines[i].slen > 0 /\ ~src.lines[i].hash}),
   comment_lines |-> Cardinality({i \in 1..Len(src.lines) : src.lines[i].hash}),
   blank_lines |-> Cardinality({i \in 1..Len(src.lines) : src.lines[i].slen = 0}),
   total_length |-> SumSeq([i \in 1..Len(src.lines) |-> src.lines[i].len]),
   language |-> lang]

\* code.split("\n").index(line) + 1: the number of the first line with that text
FirstIndex(lines, l) == CHOOSE i \in 1..Len(lines) :
  lines[i].text = l.text /\ \A j \in 1..(i - 1) : lines[j].text /= l.text

CheckDependencies(src, lang) ==
  IF Lower(lang) = "python"
  THEN LET hits == SelectSeq(src.lines, LAMBDA l : l.imp /= <<>>)
       IN [i \in 1..Len(hits) |->
             [module |-> hits[i].imp[1], line |-> FirstIndex(src.lines, hits[i])]]
  ELSE <<>>

----------------------------------------------------------------------------
(* Findings and agent results *)

\* one issue dict; severity / impact / line / category are keys that may be absent
Finding(type, sev, imp, msg, line, cat) ==
  [type |-> type, severity |-> sev, impact |-> imp, message |-> msg,
   line |-> line, lines |-> <<>>, category |-> cat, agent |-> <<>>]

\* the dict a review() returns; score_key names the one score key it carries
AgentResult(score_key, score, syntax_valid, issues, vulnerabilities, cm, stats, analysis) ==
  [skipped |-> FALSE, error |-> <<>>, score_key |-> score_key, score |-> score,
   syntax_valid |-> syntax_valid, issues |-> issues,
   vulnerabilities |-> vulnerabilities, complexity_metrics |-> cm,
   docstring_stats |-> stats, analysis |-> analysis]

\* {"error": str(e), "skipped": True}
SkippedResult(msg) ==
  [skipped |-> TRUE, error |-> msg, score_key |-> "", score |-> 0,
   syntax_valid |-> TRUE, issues |-> <<>>, vulnerabilities |-> <<>>,
   complexity_metrics |-> <<>>, docstring_stats |-> <<>>, analysis |-> <<>>]

\* BaseCodeReviewAgent._invoke: the Reviewer's text, or RuntimeError(error_msg)
Invoke(role, outcome) ==
  IF outcome.ok
  THEN [raised |-> FALSE, msg |-> <<>>, text |-> outcome.text]
  ELSE [raised |-> TRUE,
        msg |-> <<"[", role, "] Error processing request: ", outcome.err>>,
        text |-> <<>>]

\* current_issue["line"] = int(line_match.group(1)) when "line" is in the line
\* and the pattern line\s+(\d+) matches
\* a variant that keeps a line number once it is set
WithLineNumber_keepfirst(issue, l) ==
  IF Has(l, "line") /\ l.num /= <<>> /\ issue.line = <<>>
  THEN [issue EXCEPT !.line = l.num] ELSE issue

WithLineNumber(issue, l) ==
  IF Has(l, "line") /\ l.num /= <<>> THEN [issue EXCEPT !.line = l.num] ELSE issue

----------------------------------------------------------------------------
(* backend/agents/syntax_analyzer.py *)

SyntaxTriggers == <<"error", "issue", "problem", "warning">>

RECURSIVE SyntaxScan(_, _, _, _)
SyntaxScan(lines, i, issues, current) ==
  IF i > Len(lines) THEN issues \o current
  ELSE LET l == lines[i] IN
    IF HasAny(l, SyntaxTriggers)
    THEN SyntaxScan(lines, i + 1, issues \o current,
           <<Finding("syntax_issue",
                     <<IF Has(l, "error") THEN "high" ELSE "medium">>,
                     <<>>, <<l.text>>, <<>>, <<"syntax">>)>>)
    ELSE IF current /= <<>> /\ (Has(l, "line") \/ Has(l, ":"))
    THEN SyntaxScan(lines, i + 1, issues, <<WithLineNumber(current[1], l)>>)
    ELSE SyntaxScan(lines, i + 1, issues, current)

\* variants that drop the finding still pending at the end of the text
RECURSIVE SyntaxScan_noflush(_, _, _, _)
SyntaxScan_noflush(lines, i, issues, current) ==
  IF i > Len(lines) THEN issues
  ELSE LET l == lines[i] IN
    IF HasAny(l, SyntaxTriggers)
    THEN SyntaxScan_noflush(lines, i + 1, issues \o current,
           <<Finding("syntax_issue",
                     <<IF Has(l, "error") THEN "high" ELSE "medium">>,
                     <<>>, <<l.text>>, <<>>, <<"syntax">>)>>)
    ELSE IF current /= <<>> /\ (Has(l, "line") \/ Has(l, ":"))
    THEN SyntaxScan_noflush(lines, i + 1, issues, <<WithLineNumber(current[1], l)>>)
    ELSE SyntaxScan_noflush(lines, i + 1, issues, current)

SyntaxExtractIssues_noflush(analysis_text, ast_result) ==
  LET first == IF ast_result /= <<>> /\ ~ast_result[1].valid
               THEN <<Finding("syntax_error", <<"critical">>, <<>>,
                              <<ast_result[1].error>>, ast_result[1].line, <<"syntax">>)>>
               ELSE <<>>
  IN SyntaxScan_noflush(analysis_text, 1, first, <<>>)

SyntaxExtractIssues(analysis_text, ast_result) ==
  LET first == IF ast_result /= <<>> /\ ~ast_result[1].valid
               THEN <<Finding("syntax_error", <<"critical">>, <<>>,
                              <<ast_result[1].error>>, ast_result[1].line, <<"syntax">>)>>
               ELSE <<>>
  IN SyntaxScan(analysis_text, 1, first, <<>>)

\* a variant that asks the parser whatever the language
SyntaxReview_anylanguage(src, lang, outcome) ==
  LET ast_result == <<AstParse(src, lang)>>
      r == Invoke("Syntax Analyzer", outcome)
  IN IF r.raised THEN [raised |-> TRUE, msg |-> r.msg, value |-> SkippedResult(<<>>)]
     ELSE [raised |-> FALSE, msg |-> <<>>,
           value |-> AgentResult("syntax_valid", 0, ast_result[1].valid,
                       SyntaxExtractIssues(r.text, ast_result), <<>>, <<>>, <<>>, r.text)]

SyntaxReview(src, lang, outcome) ==
  LET ast_result == IF Lower(lang) = "python" THEN <<AstParse(src, lang)>> ELSE <<>>
      r == Invoke("Syntax Analyzer", outcome)
  IN IF r.raised THEN [raised |-> TRUE, msg |-> r.msg, value |-> SkippedResult(<<>>)]
     ELSE [raised |-> FALSE, msg |-> <<>>,
           value |-> AgentResult("syntax_valid", 0,
                       IF ast_result /= <<>> THEN ast_result[1].valid ELSE TRUE,
                       SyntaxExtractIssues(r.text, ast_result), <<>>, <<>>, <<>>, r.text)]

----------------------------------------------------------------------------
(* backend/agents/security_agent.py *)

SecurityPatterns ==
  << [type |-> "hardcoded_secrets",
      patterns |-> <<"password", "secret", "api_key", "apikey", "token", "credential",
                     "aws_access_key", "private_key", "passwd", "pwd">>],
     [type |-> "sql_injection",
      patterns |-> <<"execute(", "query(", "sql", "raw_sql", "format(", "%s %">>],
     [type |-> "eval_usage",
      patterns |-> <<"eval(", "exec(", "__import__", "compile(">>],
     [type |-> "insecure_random",
      patterns |-> <<"random.", "randint", "choice(">>],
     [type |-> "path_traversal",
      patterns |-> <<"../", "..\\", "open(", "file(", "read(">>] >>

GetPatternSeverity(pattern_type) ==
  CASE pattern_type = "hardcoded_secrets" -> "critical"
    [] pattern_type = "eval_usage" -> "critical"
    [] pattern_type = "sql_injection" -> "high"
    [] pattern_type = "insecure_random" -> "medium"
    [] pattern_type = "path_traversal" -> "high"
    [] OTHER -> "medium"

\* a variant that stops at the first matching line
MatchingLines_first(lines, pattern) ==
  Take(SelectSeq([i \in 1..Len(lines) |-> i], LAMBDA i : Has(lines[i], pattern)), 1)

\* the numbers of the lines whose lower-cased text contains the pattern
MatchingLines(lines, pattern) ==
  SelectSeq([i \in 1..Len(lines) |-> i], LAMBDA i : Has(lines[i], pattern))

RECURSIVE PatternMatches(_, _, _)
PatternMatches(lines, entry, p) ==
  IF p > Len(entry.patterns) THEN <<>>
  ELSE LET hit == MatchingLines(lines, entry.patterns[p]) IN
    (IF hit /= <<>>
     THEN <<[type |-> entry.type, pattern |-> entry.patterns[p],
             lines |-> Take(hit, 5), severity |-> GetPatternSeverity(entry.type)]>>
     ELSE <<>>) \o PatternMatches(lines, entry, p + 1)

RECURSIVE CheckSecurityFrom(_, _)
CheckSecurityFrom(lines, t) ==
  IF t > Len(SecurityPatterns) THEN <<>>
  ELSE PatternMatches(lines, SecurityPatterns[t], 1) \o CheckSecurityFrom(lines, t + 1)

CheckSecurityPatterns(src, lang) == CheckSecurityFrom(src.lines, 1)

SecurityTriggers == <<"vulnerability", "security", "risk", "insecure">>

\* variants of the severity rule: one that knows no "critical", one that
\* looks for "medium" before "low"
SecuritySeverity_nocritical(l) ==
  IF Has(l, "high") THEN "high"
  ELSE IF Has(l, "low") THEN "low"
  ELSE "medium"

SecuritySeverity_mediumfirst(l) ==
  IF Has(l, "critical") THEN "critical"
  ELSE IF Has(l, "high") THEN "high"
  ELSE IF Has(l, "medium") THEN "medium"
  ELSE IF Has(l, "low") THEN "low"
  ELSE "medium"

SecuritySeverity(l) ==
  IF Has(l, "critical") THEN "critical"
  ELSE IF Has(l, "high") THEN "high"
  ELSE IF Has(l, "low") THEN "low"
  ELSE "medium"

RECURSIVE SecurityScan(_, _, _, _)
SecurityScan(lines, i, vulnerabilities, current) ==
  IF i > Len(lines) THEN vulnerabilities \o current
  ELSE LET l == lines[i] IN
    IF HasAny(l, SecurityTriggers)
    THEN SecurityScan(lines, i + 1, vulnerabilities \o current,
           <<Finding("security_issue", <<SecuritySeverity(l)>>, <<>>,
                     <<l.text>>, <<>>, <<"security">>)>>)
    ELSE IF current /= <<>>
    THEN SecurityScan(lines, i + 1, vulnerabilities,
           <<[WithLineNumber(current[1], l) EXCEPT !.message = Append(@, l.text)]>>)
    ELSE SecurityScan(lines, i + 1, vulnerabilities, current)

ExtractVulnerabilities(analysis_text, pattern_matches) ==
  LET kept == SelectSeq(pattern_matches, LAMBDA m : m.severity \in {"critical", "high"})
      from_patterns ==
        [i \in 1..Len(kept) |->
           [Finding(kept[i].type, <<kept[i].severity>>, <<>>,
                    <<"Security pattern detected: ", kept[i].pattern>>, <<>>,
                    <<"security_pattern">>)
            EXCEPT !.lines = kept[i].lines]]
  IN SecurityScan(analysis_text, 1, from_patterns, <<>>)

\* the loop of _calculate_security_score: score after the deductions
RECURSIVE SecurityDeduct(_, _)
SecurityDeduct(score, vulnerabilities) ==
  IF vulnerabilities = <<>> THEN score
  ELSE LET severity == Opt(Head(vulnerabilities).severity, "medium") IN
    SecurityDeduct(score - (IF severity = "critical" THEN 6
                            ELSE IF severity = "high" THEN 4
                            ELSE IF severity = "medium" THEN 2
                            ELSE 1),
                   Tail(vulnerabilities))

CalculateSecurityScore(vulnerabilities) ==
  IF vulnerabilities = <<>> THEN 20
  ELSE Max2(0, SecurityDeduct(20, vulnerabilities))

SecurityReview(src, lang, outcome) ==
  LET pattern_matches == CheckSecurityPatterns(src, lang)
      r == Invoke("Security Analyst", outcome)
  IN IF r.raised THEN [raised |-> TRUE, msg |-> r.msg, value |-> SkippedResult(<<>>)]
     ELSE LET vulnerabilities == ExtractVulnerabilities(r.text, pattern_matches) IN
          [raised |-> FALSE, msg |-> <<>>,
           value |-> AgentResult("security_score",
                       CalculateSecurityScore(vulnerabilities), TRUE,
                       <<>>, vulnerabilities, <<>>, <<>>, r.text)]

----------------------------------------------------------------------------
(* backend/agents/performance_agent.py *)

\* the per-line checks of _identify_performance_patterns, for line number i
PerformanceLineIssues(l, i) ==
  (IF HasAny(l, <<"in [", "in list", ".find(">>) /\ (Has(l, "for") \/ Has(l, "if"))
   THEN <<Finding("inefficient_search", <<>>, <<"medium">>,
                  <<"Potentially inefficient search operation">>, <<i>>, <<>>)>>
   ELSE <<>>)
  \o
  (IF Has(l, "+=") /\ Has(l, "str")
   THEN <<Finding("string_concat", <<>>, <<"low">>,
                  <<"String concatenation in loop">>, <<i>>, <<>>)>>
   ELSE <<>>)

RECURSIVE PerformanceLines(_, _)
PerformanceLines(lines, i) ==
  IF i > Len(lines) THEN <<>>
  ELSE PerformanceLineIssues(lines[i], i) \o PerformanceLines(lines, i + 1)

\* a variant that flags nesting above 4
IdentifyPerformancePatterns_nesting4(src, lang, complexity_metrics) ==
  LET nesting_level == IF complexity_metrics = <<>> THEN 0
                       ELSE complexity_metrics[1].max_nesting
  IN (IF nesting_level > 4
      THEN <<Finding("high_nesting", <<>>, <<"high">>,
                     <<"High nesting level detected">>, <<>>, <<>>)>>
      ELSE <<>>)
     \o PerformanceLines(src.lines, 1)

IdentifyPerformancePatterns(src, lang, complexity_metrics) ==
  LET nesting_level == IF complexity_metrics = <<>> THEN 0
                       ELSE complexity_metrics[1].max_nesting
  IN (IF nesting_level > 3
      THEN <<Finding("high_nesting", <<>>, <<"high">>,
                     <<"High nesting level detected">>, <<>>, <<>>)>>
      ELSE <<>>)
     \o PerformanceLines(src.lines, 1)

PerformanceTriggers ==
  <<"performance", "bottleneck", "slow", "inefficient", "optimization">>

PerformanceImpact(l) ==
  IF Has(l, "high") \/ Has(l, "critical") THEN "high"
  ELSE IF Has(l, "low") \/ Has(l, "minor") THEN "low"
  ELSE "medium"

RECURSIVE PerformanceScan(_, _, _, _)
PerformanceScan(lines, i, issues, current) ==
  IF i > Len(lines) THEN issues \o current
  ELSE LET l == lines[i] IN
    IF HasAny(l, PerformanceTriggers)
    THEN PerformanceScan(lines, i + 1, issues \o current,
           <<Finding("performance_issue", <<>>, <<PerformanceImpact(l)>>,
                     <<l.text>>, <<>>, <<"performance">>)>>)
    ELSE IF current /= <<>>
    THEN PerformanceScan(lines, i + 1, issues,
           <<[WithLineNumber(current[1], l) EXCEPT !.message = Append(@, l.text)]>>)
    ELSE PerformanceScan(lines, i + 1, issues, current)

\* a variant that puts the parsed findings first
ExtractPerformanceIssues_parsedfirst(analysis_text, pattern_issues) ==
  PerformanceScan(analysis_text, 1, <<>>, <<>>) \o pattern_issues

ExtractPerformanceIssues(analysis_text, pattern_issues) ==
  PerformanceScan(analysis_text, 1, pattern_issues, <<>>)

RECURSIVE PerformanceDeduct(_, _)
PerformanceDeduct(score, issues) ==
  IF issues = <<>> THEN score
  ELSE LET impact == Opt(Head(issues).impact, "medium") IN
    PerformanceDeduct(score - (IF impact = "high" THEN 4
                               ELSE IF impact = "medium" THEN 2
                               ELSE 1),
                      Tail(issues))

\* the nesting penalty one level early: nesting >= 3 instead of nesting > 3
CalculatePerformanceScore_nesting3(issues, complexity_metrics) ==
  LET s1 == PerformanceDeduct(20, issues)
      cyclomatic == IF complexity_metrics = <<>> THEN 1
                    ELSE complexity_metrics[1].cyclomatic
      s2 == IF cyclomatic > 20 THEN s1 - 4
            ELSE IF cyclomatic > 10 THEN s1 - 2
            ELSE s1
      nesting == IF complexity_metrics = <<>> THEN 0
                 ELSE complexity_metrics[1].max_nesting
      s3 == IF nesting > 4 THEN s2 - 3
            ELSE IF nesting >= 3 THEN s2 - 1
            ELSE s2
  IN Max2(0, s3)

CalculatePerformanceScore(issues, complexity_metrics) ==
  LET s1 == PerformanceDeduct(20, issues)
      cyclomatic == IF complexity_metrics = <<>> THEN 1
                    ELSE complexity_metrics[1].cyclomatic
      s2 == IF cyclomatic > 20 THEN s1 - 4
            ELSE IF cyclomatic > 10 THEN s1 - 2
            ELSE s1
      nesting == IF complexity_metrics = <<>> THEN 0
                 ELSE complexity_metrics[1].max_nesting
      s3 == IF nesting > 4 THEN s2 - 3
            ELSE IF nesting > 3 THEN s2 - 1
            ELSE s2
  IN Max2(0, s3)

PerformanceReview(src, lang, outcome) ==
  LET ast_result == IF Lower(lang) = "python" THEN <<AstParse(src, lang)>> ELSE <<>>
      complexity_metrics == IF ast_result /= <<>> /\ ast_result[1].valid
                            THEN ast_result[1].complexity ELSE <<>>
      performance_issues == IdentifyPerformancePatterns(src, lang, complexity_metrics)
      r == Invoke("Performance Analyst", outcome)
  IN IF r.raised THEN [raised |-> TRUE, msg |-> r.msg, value |-> SkippedResult(<<>>)]
     ELSE LET issues == ExtractPerformanceIssues(r.text, performance_issues) IN
          [raised |-> FALSE, msg |-> <<>>,
           value |-> AgentResult("performance_score",
                       CalculatePerformanceScore(issues, complexity_metrics), TRUE,
                       issues, <<>>, complexity_metrics, <<>>, r.text)]

----------------------------------------------------------------------------
(* backend/agents/style_agent.py *)

\* the checks of _check_style_patterns on line number i
StyleLineIssues(l, i, lang) ==
  IF l.slen = 0 \/ l.hash THEN <<>>
  ELSE
    (IF l.len > 100
     THEN <<Finding("line_length", <<"minor">>, <<>>,
                    <<"Line exceeds 100 characters">>, <<i>>, <<>>)>>
     ELSE <<>>)
    \o
    (IF Lower(lang) = "python" /\ Has(l, "\t") /\ Has(l, "    ")
     THEN <<Finding("mixed_indentation", <<"major">>, <<>>,
                    <<"Mixed tabs and spaces detected">>, <<i>>, <<>>)>>
     ELSE <<>>)
    \o
    (IF Lower(lang) = "python" /\ l.def /= <<>>
        /\ l.def[1].nonempty /\ ~l.def[1].firstLower /\ ~l.def[1].underscore
     THEN <<Finding("naming_convention", <<"minor">>, <<>>,
                    <<"Function '", l.def[1].name, "' should use snake_case">>,
                    <<i>>, <<>>)>>
     ELSE <<>>)

RECURSIVE StyleLines(_, _, _)
StyleLines(lines, i, lang) ==
  IF i > Len(lines) THEN <<>>
  ELSE StyleLineIssues(lines[i], i, lang) \o StyleLines(lines, i + 1, lang)

CheckStylePatterns(src, lang) == StyleLines(src.lines, 1, lang)

StyleTriggers == <<"style", "naming", "format", "convention", "pep">>

RECURSIVE StyleScan(_, _, _, _)
StyleScan(lines, i, issues, current) ==
  IF i > Len(lines) THEN issues \o current
  ELSE LET l == lines[i] IN
    IF HasAny(l, StyleTriggers)
    THEN StyleScan(lines, i + 1, issues \o current,
           <<Finding("style_issue",
                     <<IF Has(l, "major") \/ Has(l, "critical") THEN "major" ELSE "minor">>,
                     <<>>, <<l.text>>, <<>>, <<"style">>)>>)
    ELSE IF current /= <<>>
    THEN StyleScan(lines, i + 1, issues,
           <<[WithLineNumber(current[1], l) EXCEPT !.message = Append(@, l.text)]>>)
    ELSE StyleScan(lines, i + 1, issues, current)

ExtractStyleIssues(analysis_text, pattern_issues) ==
  StyleScan(analysis_text, 1, pattern_issues, <<>>)

RECURSIVE StyleDeduct(_, _)
StyleDeduct(score, issues) ==
  IF issues = <<>> THEN score
  ELSE LET severity == Opt(Head(issues).severity, "minor") IN
    StyleDeduct(score - (IF severity = "major" THEN 2 ELSE 1), Tail(issues))

\* the score without its floor: score instead of max(0.0, score)
CalculateStyleScore_nofloor(issues) ==
  IF issues = <<>> THEN 20 ELSE StyleDeduct(20, issues)

CalculateStyleScore(issues) ==
  IF issues = <<>> THEN 20 ELSE Max2(0, StyleDeduct(20, issues))

StyleReview(src, lang, outcome) ==
  LET style_issues == CheckStylePatterns(src, lang)
      r == Invoke("Style Reviewer", outcome)
  IN IF r.raised THEN [raised |-> TRUE, msg |-> r.msg, value |-> SkippedResult(<<>>)]
     ELSE LET issues == ExtractStyleIssues(r.text, style_issues) IN
          [raised |-> FALSE, msg |-> <<>>,
           value |-> AgentResult("style_score", CalculateStyleScore(issues), TRUE,
                       issues, <<>>, <<>>, <<>>, r.text)]

----------------------------------------------------------------------------
(* backend/agents/best_practices_agent.py *)

RECURSIVE MagicNumberLines(_, _)
MagicNumberLines(lines, i) ==
  IF i > Len(lines) THEN <<>>
  ELSE (IF lines[i].nums > 2 /\ Has(lines[i], "=")
        THEN <<[type |-> "magic_numbers", line |-> <<i>>,
                message |-> "Potential magic numbers detected",
                category |-> "Code clarity"]>>
        ELSE <<>>) \o MagicNumberLines(lines, i + 1)

\* function_bodies stays empty in the code, so the duplication check adds nothing
IdentifyAntiPatterns(src, lang, ast_result) ==
  (IF ast_result /= <<>> /\ ast_result[1].valid
      /\ Opt(ast_result[1].complexity, [cyclomatic |-> 0]).cyclomatic > 15
   THEN <<[type |-> "high_complexity", line |-> <<>>,
           message |-> "High cyclomatic complexity suggests potential god function",
           category |-> "Single Responsibility Principle"]>>
   ELSE <<>>)
  \o MagicNumberLines(src.lines, 1)

BestPracticesTriggers ==
  <<"anti-pattern", "violation", "principle", "best practice",
    "design", "architecture", "solid", "dry">>

RECURSIVE BestPracticesScan(_, _, _, _)
BestPracticesScan(lines, i, issues, current) ==
  IF i > Len(lines) THEN issues \o current
  ELSE LET l == lines[i] IN
    IF HasAny(l, BestPracticesTriggers)
    THEN BestPracticesScan(lines, i + 1, issues \o current,
           <<Finding("best_practice_issue", <<"medium">>, <<>>,
                     <<l.text>>, <<>>, <<"best_practices">>)>>)
    ELSE IF current /= <<>>
    THEN BestPracticesScan(lines, i + 1, issues,
           <<[WithLineNumber(current[1], l) EXCEPT
                !.category = IF Has(l, "solid") THEN <<"SOLID principles">>
                             ELSE IF Has(l, "dry") THEN <<"DRY violation">>
                             ELSE @,
                !.message = Append(@, l.text)]>>)
    ELSE BestPracticesScan(lines, i + 1, issues, current)

ExtractBestPracticesIssues(analysis_text, anti_patterns) ==
  BestPracticesScan(analysis_text, 1,
    [i \in 1..Len(anti_patterns) |->
       Finding(anti_patterns[i].type, <<"medium">>, <<>>,
               <<anti_patterns[i].message>>, anti_patterns[i].line,
               <<anti_patterns[i].category>>)],
    <<>>)

RECURSIVE BestPracticesDeduct(_, _)
BestPracticesDeduct(score, issues) ==
  IF issues = <<>> THEN score
  ELSE LET severity == Opt(Head(issues).severity, "medium") IN
    BestPracticesDeduct(score - (IF severity = "high" THEN 4
                                 ELSE IF severity = "medium" THEN 2
                                 ELSE 1),
                        Tail(issues))

CalculateBestPracticesScore(issues) ==
  IF issues = <<>> THEN 20 ELSE Max2(0, BestPracticesDeduct(20, issues))

BestPracticesReview(src, lang, outcome) ==
  LET ast_result == IF Lower(lang) = "python" THEN <<AstParse(src, lang)>> ELSE <<>>
      anti_patterns == IdentifyAntiPatterns(src, lang, ast_result)
      r == Invoke("Best Practices Reviewer", outcome)
  IN IF r.raised THEN [raised |-> TRUE, msg |-> r.msg, value |-> SkippedResult(<<>>)]
     ELSE LET issues == ExtractBestPracticesIssues(r.text, anti_patterns) IN
          [raised |-> FALSE, msg |-> <<>>,
           value |-> AgentResult("best_practices_score",
                       CalculateBestPracticesScore(issues), TRUE,
                       issues, <<>>, <<>>, <<>>, r.text)]

----------------------------------------------------------------------------
(* backend/agents/documentation_agent.py *)

\* a percentage as the fraction num / den (den > 0)
Percent(num, den) == [num |-> num, den |-> den]

PercentBelow(p, k) == p.num < k * p.den

\* a variant whose coverage is 100 when there is nothing to document
DocstringStats_full(fdoc, fns, cdoc, cls) ==
  LET total_documented == fdoc + cdoc
      total_items == fns + cls
  IN [functions_with_docstrings |-> fdoc,
      functions_without_docstrings |-> fns - fdoc,
      classes_with_docstrings |-> cdoc,
      classes_without_docstrings |-> cls - cdoc,
      total_functions |-> fns,
      total_classes |-> cls,
      coverage_percentage |-> IF total_items > 0
                              THEN Percent(total_documented * 100, total_items)
                              ELSE Percent(100, 1)]

\* the stats dict of _analyze_docstrings from its four counts
DocstringStats(fdoc, fns, cdoc, cls) ==
  LET total_documented == fdoc + cdoc
      total_items == fns + cls
  IN [functions_with_docstrings |-> fdoc,
      functions_without_docstrings |-> fns - fdoc,
      classes_with_docstrings |-> cdoc,
      classes_without_docstrings |-> cls - cdoc,
      total_functions |-> fns,
      total_classes |-> cls,
      coverage_percentage |-> IF total_items > 0
                              THEN Percent(total_documented * 100, total_items)
                              ELSE Percent(0, 1)]

AnalyzeDocstrings(ast_result) ==
  LET nodes == Walk(ast_result.ast_tree[1])
      fns == SelectSeq(nodes, LAMBDA n : n.kind = "FunctionDef")
      cls == SelectSeq(nodes, LAMBDA n : n.kind = "ClassDef")
  IN DocstringStats(Len(SelectSeq(fns, LAMBDA n : n.doc = "text")), Len(fns),
                    Len(SelectSeq(cls, LAMBDA n : n.doc = "text")), Len(cls))

\* docstring_stats.get("coverage_percentage", 100.0)
CoverageOf(docstring_stats) ==
  IF docstring_stats = <<>> THEN Percent(100, 1)
  ELSE docstring_stats[1].coverage_percentage

RECURSIVE TodoLines(_, _)
TodoLines(lines, i) ==
  IF i > Len(lines) THEN <<>>
  ELSE (IF (Has(lines[i], "todo") \/ Has(lines[i], "fixme")) /\ lines[i].slen < 20
        THEN <<Finding("vague_todo", <<"low">>, <<>>,
                       <<"TODO/FIXME comment lacks detail">>, <<i>>, <<>>)>>
        ELSE <<>>) \o TodoLines(lines, i + 1)

\* a variant that emits the moderate finding next to the low one
CheckDocumentationPatterns_both(src, lang, docstring_stats) ==
  LET coverage == CoverageOf(docstring_stats) IN
  (IF PercentBelow(coverage, 50)
   THEN <<Finding("low_docstring_coverage", <<"high">>, <<>>,
                  <<"Low docstring coverage">>, <<>>, <<>>)>>
   ELSE <<>>)
  \o (IF PercentBelow(coverage, 80)
      THEN <<Finding("moderate_docstring_coverage", <<"medium">>, <<>>,
                     <<"Moderate docstring coverage">>, <<>>, <<>>)>>
      ELSE <<>>)
  \o TodoLines(src.lines, 1)

CheckDocumentationPatterns(src, lang, docstring_stats) ==
  LET coverage == CoverageOf(docstring_stats) IN
  (IF PercentBelow(coverage, 50)
   THEN <<Finding("low_docstring_coverage", <<"high">>, <<>>,
                  <<"Low docstring coverage">>, <<>>, <<>>)>>
   ELSE IF PercentBelow(coverage, 80)
   THEN <<Finding("moderate_docstring_coverage", <<"medium">>, <<>>,
                  <<"Moderate docstring coverage">>, <<>>, <<>>)>>
   ELSE <<>>)
  \o TodoLines(src.lines, 1)

DocumentationTriggers ==
  <<"docstring", "documentation", "comment", "missing", "unclear">>

DocumentationSeverity(l) ==
  IF Has(l, "missing") \/ Has(l, "critical") THEN "high"
  ELSE IF Has(l, "minor") \/ Has(l, "suggestion") THEN "low"
  ELSE "medium"

RECURSIVE DocumentationScan(_, _, _, _)
DocumentationScan(lines, i, issues, current) ==
  IF i > Len(lines) THEN issues \o current
  ELSE LET l == lines[i] IN
    IF HasAny(l, DocumentationTriggers)
    THEN DocumentationScan(lines, i + 1, issues \o current,
           <<Finding("documentation_issue", <<DocumentationSeverity(l)>>, <<>>,
                     <<l.text>>, <<>>, <<"documentation">>)>>)
    ELSE IF current /= <<>>
    THEN DocumentationScan(lines, i + 1, issues,
           <<[(IF (Has(l, "line") \/ Has(l, "function") \/ Has(l, "class"))
                  /\ l.num /= <<>>
               THEN [current[1] EXCEPT !.line = l.num] ELSE current[1])
              EXCEPT !.message = Append(@, l.text)]>>)
    ELSE DocumentationScan(lines, i + 1, issues, current)

ExtractDocumentationIssues(analysis_text, pattern_issues) ==
  DocumentationScan(analysis_text, 1, pattern_issues, <<>>)

RECURSIVE DocumentationDeduct(_, _)
DocumentationDeduct(score, issues) ==
  IF issues = <<>> THEN score
  ELSE LET severity == Opt(Head(issues).severity, "medium") IN
    DocumentationDeduct(score - (IF severity = "high" THEN 4
                                 ELSE IF severity = "medium" THEN 2
                                 ELSE 1),
                        Tail(issues))

\* the coverage bands closed at the top: <= 50.0 and <= 80.0
CalculateDocumentationScore_closed(issues, docstring_stats) ==
  LET s1 == DocumentationDeduct(20, issues)
      coverage == CoverageOf(docstring_stats)
      s2 == IF coverage.num <= 50 * coverage.den THEN s1 - 6
            ELSE IF coverage.num <= 80 * coverage.den THEN s1 - 3
            ELSE s1
  IN Max2(0, s2)

\* a variant without the deduction for the coverage itself
CalculateDocumentationScore_issuesonly(issues, docstring_stats) ==
  Max2(0, DocumentationDeduct(20, issues))

CalculateDocumentationScore(issues, docstring_stats) ==
  LET s1 == DocumentationDeduct(20, issues)
      coverage == CoverageOf(docstring_stats)
      s2 == IF PercentBelow(coverage, 50) THEN s1 - 6
            ELSE IF PercentBelow(coverage, 80) THEN s1 - 3
            ELSE s1
  IN Max2(0, s2)

DocumentationReview(src, lang, outcome) ==
  LET ast_result == IF Lower(lang) = "python" THEN <<AstParse(src, lang)>> ELSE <<>>
      docstring_stats == IF ast_result /= <<>> /\ ast_result[1].valid
                         THEN <<AnalyzeDocstrings(ast_result[1])>> ELSE <<>>
      doc_issues == CheckDocumentationPatterns(src, lang, docstring_stats)
      r == Invoke("Documentation Reviewer", outcome)
  IN IF r.raised THEN [raised |-> TRUE, msg |-> r.msg, value |-> SkippedResult(<<>>)]
     ELSE LET issues == ExtractDocumentationIssues(r.text, doc_issues) IN
          [raised |-> FALSE, msg |-> <<>>,
           value |-> AgentResult("documentation_score",
                       CalculateDocumentationScore(issues, docstring_stats), TRUE,
                       issues, <<>>, <<>>, docstring_stats, r.text)]

----------------------------------------------------------------------------
(* backend/core/orchestrator.py *)

Dims == {"syntax", "security", "performance", "style", "best_practices", "documentation"}

\* the order of the six try blocks of review(), which is the insertion order
\* of results["agent_results"]
DimOrder == <<"syntax", "security", "performance", "style", "best_practices",
              "documentation">>

\* not code, without the strip: only the empty string is blank
IsBlank_unstripped(src) == Len(src.lines) = 1 /\ src.lines[1].len = 0

\* not code or not code.strip()
IsBlank(src) ==
  \/ (Len(src.lines) = 1 /\ src.lines[1].len = 0)
  \/ \A i \in 1..Len(src.lines) : src.lines[i].slen = 0

\* include_agents after the defaulting of lines 100-108
EffectiveInclude(inc) == IF inc.none THEN Dims ELSE inc.names

\* "<d>" in include_agents, without the `not include_agents` escape
Selected_listed(inc, d) == d \in EffectiveInclude(inc)

\* not include_agents or "<d>" in include_agents
Selected(inc, d) == EffectiveInclude(inc) = {} \/ d \in EffectiveInclude(inc)

\* agent_result.get("skipped") or agent_result.get("error")
IsSkipped(r) == r.skipped \/ Truthy(r.error)

\* agent_result.get("issues", []) or agent_result.get("vulnerabilities", [])
IssuesOf(r) == IF r.issues /= <<>> THEN r.issues ELSE r.vulnerabilities

\* the keys of agent_results in iteration order
Keys(results) == SelectSeq(DimOrder, LAMBDA d : d \in DOMAIN results)

Tagged(issues, agent_name) ==
  [i \in 1..Len(issues) |-> [issues[i] EXCEPT !.agent = <<agent_name>>]]

\* the issues the summary loop collects, each tagged issue["agent"] = agent_name
RECURSIVE CollectIssues(_, _, _)
CollectIssues(results, keys, i) ==
  IF i > Len(keys) THEN <<>>
  ELSE (IF IsSkipped(results[keys[i]]) THEN <<>>
        ELSE Tagged(IssuesOf(results[keys[i]]), keys[i]))
       \o CollectIssues(results, keys, i + 1)

\* the loop tags the issue dicts in place: agent_results after the summary
TagResults(results) ==
  [d \in DOMAIN results |->
     IF IsSkipped(results[d]) THEN results[d]
     ELSE IF results[d].issues /= <<>>
     THEN [results[d] EXCEPT !.issues = Tagged(@, d)]
     ELSE [results[d] EXCEPT !.vulnerabilities = Tagged(@, d)]]

\* scores["syntax"] = 10.0 if agent_result["syntax_valid"] else 0.0
SyntaxScore(syntax_valid) == IF syntax_valid THEN 20 ELSE 0

\* the name under which a score key is collected
ScoreName(score_key) ==
  CASE score_key = "syntax_valid" -> "syntax"
    [] score_key = "security_score" -> "security"
    [] score_key = "performance_score" -> "performance"
    [] score_key = "style_score" -> "style"
    [] score_key = "best_practices_score" -> "best_practices"
    [] score_key = "documentation_score" -> "documentation"

CollectScores(results) ==
  LET scored == {d \in DOMAIN results :
                   ~IsSkipped(results[d]) /\ results[d].score_key /= ""}
      names == {ScoreName(results[d].score_key) : d \in scored}
  IN [n \in names |->
        LET d == CHOOSE x \in scored : ScoreName(results[x].score_key) = n
        IN IF results[d].score_key = "syntax_valid"
           THEN SyntaxScore(results[d].syntax_valid)
           ELSE results[d].score]

\* the sum divided by the six dimensions instead of by len(scores)
OverallScore_six(scores) ==
  IF DOMAIN scores /= {}
  THEN LET names == SelectSeq(DimOrder, LAMBDA d : d \in DOMAIN scores)
       IN (SumSeq([i \in 1..Len(names) |-> scores[names[i]]]) * 60) \div Len(DimOrder)
  ELSE 0

\* sum(scores.values()) / len(scores), in 1/120 points
OverallScore(scores) ==
  IF DOMAIN scores /= {}
  THEN LET names == SelectSeq(DimOrder, LAMBDA d : d \in DOMAIN scores)
       IN (SumSeq([i \in 1..Len(names) |-> scores[names[i]]]) * 60) \div Len(names)
  ELSE 0

\* every entry counted as run, skipped or not
AgentsRun_all(results) == Cardinality(DOMAIN results)

\* len([r for r in ... if not r.get("skipped") and not r.get("error")])
AgentsRun(results) == Cardinality({d \in DOMAIN results : ~IsSkipped(results[d])})

\* a variant that tells whether any entry failed instead of counting them
AgentsFailed_any(results) ==
  IF \E d \in DOMAIN results : Truthy(results[d].error) THEN 1 ELSE 0

\* len([r for r in ... if r.get("error")])
AgentsFailed(results) == Cardinality({d \in DOMAIN results : Truthy(results[d].error)})

\* a variant whose overall severity is that of the first issue collected
GenerateSummaryIn_firstissue(results, keys) ==
  LET all_issues == CollectIssues(results, keys, 1)
      critical_issues ==
        SelectSeq(all_issues, LAMBDA i : Opt(i.severity, "medium") = "critical")
      high_issues ==
        SelectSeq(all_issues, LAMBDA i : Opt(i.severity, "medium") = "high")
      scores == CollectScores(results)
  IN [total_issues |-> Len(all_issues),
      critical_issues |-> Len(critical_issues),
      high_issues |-> Len(high_issues),
      medium_issues |-> Len(SelectSeq(all_issues, LAMBDA i : i.severity = <<"medium">>)),
      low_issues |-> Len(SelectSeq(all_issues, LAMBDA i : i.severity = <<"low">>)),
      scores |-> scores,
      overall_score |-> OverallScore(scores),
      overall_severity |-> IF all_issues = <<>> THEN "none"
                           ELSE IF Opt(all_issues[1].severity, "medium") \in {"critical", "high"}
                           THEN all_issues[1].severity[1]
                           ELSE "medium",
      agents_run |-> AgentsRun(results),
      agents_failed |-> AgentsFailed(results)]

\* the summary when agent_results.items() yields the entries in the order keys
GenerateSummaryIn(results, keys) ==
  LET all_issues == CollectIssues(results, keys, 1)
      critical_issues ==
        SelectSeq(all_issues, LAMBDA i : Opt(i.severity, "medium") = "critical")
      high_issues ==
        SelectSeq(all_issues, LAMBDA i : Opt(i.severity, "medium") = "high")
      scores == CollectScores(results)
  IN [total_issues |-> Len(all_issues),
      critical_issues |-> Len(critical_issues),
      high_issues |-> Len(high_issues),
      medium_issues |-> Len(SelectSeq(all_issues, LAMBDA i : i.severity = <<"medium">>)),
      low_issues |-> Len(SelectSeq(all_issues, LAMBDA i : i.severity = <<"low">>)),
      scores |-> scores,
      overall_score |-> OverallScore(scores),
      overall_severity |-> IF critical_issues /= <<>> THEN "critical"
                           ELSE IF high_issues /= <<>> THEN "high"
                           ELSE IF all_issues /= <<>> THEN "medium"
                           ELSE "none",
      agents_run |-> AgentsRun(results),
      agents_failed |-> AgentsFailed(results)]

\* review() inserts the entries in the order of its six blocks
GenerateSummary(results) == GenerateSummaryIn(results, Keys(results))

\* the except branch without str(e): {"error": "", "skipped": True}
TryReview_nomessage(r) == IF r.raised THEN SkippedResult(<<>>) ELSE r.value

\* one try block of review(): the agent's result, or the skipped marker
TryReview(r) == IF r.raised THEN SkippedResult(r.msg) ELSE r.value

----------------------------------------------------------------------------
(* Inputs: source texts with the outcome of ast.parse on them, and Reviewer *)
(* verdict texts.  Each is written above its definition as the text it is.  *)

\* ""
SrcEmpty ==
  [name |-> "SrcEmpty",
   lines |-> <<
     [text |-> "", len |-> 0, slen |-> 0, hash |-> FALSE, subs |-> {}, nums |-> 0, def |-> <<>>, imp |-> <<>>]>>,
   parse |-> [ok |-> TRUE, errline |-> <<>>, error |-> "", tree |-> [kind |-> "Module", name |-> "", doc |-> "none", line |-> 0, children |-> <<>>]]]

\* "   "
SrcSpaces ==
  [name |-> "SrcSpaces",
   lines |-> <<
     [text |-> "   ", len |-> 3, slen |-> 0, hash |-> FALSE, subs |-> {}, nums |-> 0, def |-> <<>>, imp |-> <<>>]>>,
   parse |-> [ok |-> TRUE, errline |-> <<>>, error |-> "", tree |-> [kind |-> "Module", name |-> "", doc |-> "none", line |-> 0, children |-> <<>>]]]

\* "def area():\n    \"Unit area.\"\n    return 1"
SrcClean ==
  [name |-> "SrcClean",
   lines |-> <<
     [text |-> "def area():", len |-> 11, slen |-> 11, hash |-> FALSE, subs |-> {":"}, nums |-> 0, def |-> <<[name |-> "area", nonempty |-> TRUE, firstLower |-> TRUE, underscore |-> FALSE, snake |-> TRUE]>>, imp |-> <<>>],
     [text |-> "    \"Unit area.\"", len |-> 16, slen |-> 12, hash |-> FALSE, subs |-> {"    "}, nums |-> 0, def |-> <<>>, imp |-> <<>>],
     [text |-> "    return 1", len |-> 12, slen |-> 8, hash |-> FALSE, subs |-> {"    "}, nums |-> 1, def |-> <<>>, imp |-> <<>>]>>,
   parse |-> [ok |-> TRUE, errline |-> <<>>, error |-> "", tree |-> [kind |-> "Module", name |-> "", doc |-> "none", line |-> 0, children |-> <<[kind |-> "FunctionDef", name |-> "area", doc |-> "text", line |-> 1, children |-> <<[kind |-> "arguments", name |-> "", doc |-> "none", line |-> 0, children |-> <<>>], [kind |-> "Expr", name |-> "", doc |-> "none", line |-> 0, children |-> <<[kind |-> "Constant", name |-> "", doc |-> "none", line |-> 0, children |-> <<>>]>>], [kind |-> "Return", name |-> "", doc |-> "none", line |-> 0, children |-> <<[kind |-> "Constant", name |-> "", doc |-> "none", line |-> 0, children |-> <<>>]>>]>>]>>]]]

\* "PASSWORD = \"admin123\""
SrcSecret ==
  [name |-> "SrcSecret",
   lines |-> <<
     [text |-> "PASSWORD = \"admin123\"", len |-> 21, slen |-> 21, hash |-> FALSE, subs |-> {"password", "="}, nums |-> 0, def |-> <<>>, imp |-> <<>>]>>,
   parse |-> [ok |-> TRUE, errline |-> <<>>, error |-> "", tree |-> [kind |-> "Module", name |-> "", doc |-> "none", line |-> 0, children |-> <<[kind |-> "Assign", name |-> "", doc |-> "none", line |-> 0, children |-> <<[kind |-> "Name", name |-> "", doc |-> "none", line |-> 0, children |-> <<[kind |-> "Store", name |-> "", doc |-> "none", line |-> 0, children |-> <<>>]>>], [kind |-> "Constant", name |-> "", doc |-> "none", line |-> 0, children |-> <<>>]>>]>>]]]

\* "def f(:\n    pass"
SrcBroken ==
  [name |-> "SrcBroken",
   lines |-> <<
     [text |-> "def f(:", len |-> 7, slen |-> 7, hash |-> FALSE, subs |-> {":"}, nums |-> 0, def |-> <<[name |-> "f", nonempty |-> TRUE, firstLower |-> TRUE, underscore |-> FALSE, snake |-> TRUE]>>, imp |-> <<>>],
     [text |-> "    pass", len |-> 8, slen |-> 4, hash |-> FALSE, subs |-> {"    "}, nums |-> 0, def |-> <<>>, imp |-> <<>>]>>,
   parse |-> [ok |-> FALSE, errline |-> <<1>>, error |-> "invalid syntax (<unknown>, line 1)", tree |-> [kind |-> "Module", name |-> "", doc |-> "none", line |-> 0, children |-> <<>>]]]

\* "def f():\n    \"d\"\nif x: pass\nif x: pass\nif x: pass\nif x: pass\nif x: pass\nif x: pass\nif x: pass\nif x: pass\nif x: pass\nif x: pass"
SrcBranchy ==
  [name |-> "SrcBranchy",
   lines |-> <<
     [text |-> "def f():", len |-> 8, slen |-> 8, hash |-> FALSE, subs |-> {":"}, nums |-> 0, def |-> <<[name |-> "f", nonempty |-> TRUE, firstLower |-> TRUE, underscore |-> FALSE, snake |-> TRUE]>>, imp |-> <<>>],
     [text |-> "    \"d\"", len |-> 7, slen |-> 3, hash |-> FALSE, subs |-> {"    "}, nums |-> 0, def |-> <<>>, imp |-> <<>>],
     [text |-> "if x: pass", len |-> 10, slen |-> 10, hash |-> FALSE, subs |-> {":", "if"}, nums |-> 0, def |-> <<>>, imp |-> <<>>],
     [text |-> "if x: pass", len |-> 10, slen |-> 10, hash |-> FALSE, subs |-> {":", "if"}, nums |-> 0, def |-> <<>>, imp |-> <<>>],
     [text |-> "if x: pass", len |-> 10, slen |-> 10, hash |-> FALSE, subs |-> {":", "if"}, nums |-> 0, def |-> <<>>, imp |-> <<>>],
     [text |-> "if x: pass", len |-> 10, slen |-> 10, hash |-> FALSE, subs |-> {":", "if"}, nums |-> 0, def |-> <<>>, imp |-> <<>>],
     [text |-> "if x: pass", len |-> 10, slen |-> 10, hash |-> FALSE, subs |-> {":", "if"}, nums |-> 0, def |-> <<>>, imp |-> <<>>],
     [text |-> "if x: pass", len |-> 10, slen |-> 10, hash |-> FALSE, subs |-> {":", "if"}, nums |-> 0, def |-> <<>>, imp |-> <<>>],
     [text |-> "if x: pass", len |-> 10, slen |-> 10, hash |-> FALSE, subs |-> {":", "if"}, nums |-> 0, def |-> <<>>, imp |-> <<>>],
     [text |-> "if x: pass", len |-> 10, slen |-> 10, hash |-> FALSE, subs |-> {":", "if"}, nums |-> 0, def |-> <<>>, imp |-> <<>>],
     [text |-> "if x: pass", len |-> 10, slen |-> 10, hash |-> FALSE, subs |-> {":", "if"}, nums |-> 0, def |-> <<>>, imp |-> <<>>],
     [text |-> "if x: pass", len |-> 10, slen |-> 10, hash |-> FALSE, subs |-> {":", "if"}, nums |-> 0, def |-> <<>>, imp |-> <<>>]>>,
   parse |-> [ok |-> TRUE, errline |-> <<>>, error |-> "", tree |-> [kind |-> "Module", name |-> "", doc |-> "none", line |-> 0, children |-> <<[kind |-> "FunctionDef", name |-> "f", doc |-> "text", line |-> 1, children |-> <<[kind |-> "arguments", name |-> "", doc |-> "none", line |-> 0, children |-> <<>>], [kind |-> "Expr", name |-> "", doc |-> "none", line |-> 0, children |-> <<[kind |-> "Constant", name |-> "", doc |-> "none", line |-> 0, children |-> <<>>]>>]>>], [kind |-> "If", name |-> "", doc |-> "none", line |-> 0, children |-> <<[kind |-> "Name", name |-> "", doc |-> "none", line |-> 0, children |-> <<[kind |-> "Load", name |-> "", doc |-> "none", line |-> 0, children |-> <<>>]>>], [kind |-> "Pass", name |-> "", doc |-> "none", line |-> 0, children |-> <<>>]>>], [kind |-> "If", name |-> "", doc |-> "none", line |-> 0, children |-> <<[kind |-> "Name", name |-> "", doc |-> "none", line |-> 0, children |-> <<[kind |-> "Load", name |-> "", doc |-> "none", line |-> 0, children |-> <<>>]>>], [kind |-> "Pass", name |-> "", doc |-> "none", line |-> 0, children |-> <<>>]>>], [kind |-> "If", name |-> "", doc |-> "none", line |-> 0, children |-> <<[kind |-> "Name", name |-> "", doc |-> "none", line |-> 0, children |-> <<[kind |-> "Load", name |-> "", doc |-> "none", line |-> 0, children |-> <<>>]>>], [kind |-> "Pass", name |-> "", doc |-> "none", line |-> 0, children |-> <<>>]>>], [kind |-> "If", name |-> "", doc |-> "none", line |-> 0, children |-> <<[kind |-> "Name", name |-> "", doc |-> "none", line |-> 0, children |-> <<[kind |-> "Load", name |-> "", doc |-> "none", line |-> 0, children |-> <<>>]>>], [kind |-> "Pass", name |-> "", doc |-> "none", line |-> 0, children |-> <<>>]>>], [kind |-> "If", name |-> "", doc |-> "none", line |-> 0, children |-> <<[kind |-> "Name", name |-> "", doc |-> "none", line |-> 0, children |-> <<[kind |-> "Load", name |-> "", doc |-> "none", line |-> 0, children |-> <<>>]>>], [kind |-> "Pass", name |-> "", doc |-> "none", line |-> 0, children |-> <<>>]>>], [kind |-> "If", name |-> "", doc |-> "none", line |-> 0, children |-> <<[kind |-> "Name", name |-> "", doc |-> "none", line |-> 0, children |-> <<[kind |-> "Load", name |-> "", doc |-> "none", line |-> 0, children |-> <<>>]>>], [kind |-> "Pass", name |-> "", doc |-> "none", line |-> 0, children |-> <<>>]>>], [kind |-> "If", name |-> "", doc |-> "none", line |-> 0, children |-> <<[kind |-> "Name", name |-> "", doc |-> "none", line |-> 0, children |-> <<[kind |-> "Load", name |-> "", doc |-> "none", line |-> 0, children |-> <<>>]>>], [kind |-> "Pass", name |-> "", doc |-> "none", line |-> 0, children |-> <<>>]>>], [kind |-> "If", name |-> "", doc |-> "none", line |-> 0, children |-> <<[kind |-> "Name", name |-> "", doc |-> "none", line |-> 0, children |-> <<[kind |-> "Load", name |-> "", doc |-> "none", line |-> 0, children |-> <<>>]>>], [kind |-> "Pass", name |-> "", doc |-> "none", line |-> 0, children |-> <<>>]>>], [kind |-> "If", name |-> "", doc |-> "none", line |-> 0, children |-> <<[kind |-> "Name", name |-> "", doc |-> "none", line |-> 0, children |-> <<[kind |-> "Load", name |-> "", doc |-> "none", line |-> 0, children |-> <<>>]>>], [kind |-> "Pass", name |-> "", doc |-> "none", line |-> 0, children |-> <<>>]>>], [kind |-> "If", name |-> "", doc |-> "none", line |-> 0, children |-> <<[kind |-> "Name", name |-> "", doc |-> "none", line |-> 0, children |-> <<[kind |-> "Load", name |-> "", doc |-> "none", line |-> 0, children |-> <<>>]>>], [kind |-> "Pass", name |-> "", doc |-> "none", line |-> 0, children |-> <<>>]>>]>>]]]

\* "def g(a):\n    \"d\"\n    if a:\n        if a:\n            return a"
SrcNested ==
  [name |-> "SrcNested",
   lines |-> <<
     [text |-> "def g(a):", len |-> 9, slen |-> 9, hash |-> FALSE, subs |-> {":"}, nums |-> 0, def |-> <<[name |-> "g", nonempty |-> TRUE, firstLower |-> TRUE, underscore |-> FALSE, snake |-> TRUE]>>, imp |-> <<>>],
     [text |-> "    \"d\"", len |-> 7, slen |-> 3, hash |-> FALSE, subs |-> {"    "}, nums |-> 0, def |-> <<>>, imp |-> <<>>],
     [text |-> "    if a:", len |-> 9, slen |-> 5, hash |-> FALSE, subs |-> {":", "if", "    "}, nums |-> 0, def |-> <<>>, imp |-> <<>>],
     [text |-> "        if a:", len |-> 13, slen |-> 5, hash |-> FALSE, subs |-> {":", "if", "    "}, nums |-> 0, def |-> <<>>, imp |-> <<>>],
     [text |-> "            return a", len |-> 20, slen |-> 8, hash |-> FALSE, subs |-> {"    "}, nums |-> 0, def |-> <<>>, imp |-> <<>>]>>,
   parse |-> [ok |-> TRUE, errline |-> <<>>, error |-> "", tree |-> [kind |-> "Module", name |-> "", doc |-> "none", line |-> 0, children |-> <<[kind |-> "FunctionDef", name |-> "g", doc |-> "text", line |-> 1, children |-> <<[kind |-> "arguments", name |-> "", doc |-> "none", line |-> 0, children |-> <<[kind |-> "arg", name |-> "", doc |-> "none", line |-> 0, children |-> <<>>]>>], [kind |-> "Expr", name |-> "", doc |-> "none", line |-> 0, children |-> <<[kind |-> "Constant", name |-> "", doc |-> "none", line |-> 0, children |-> <<>>]>>], [kind |-> "If", name |-> "", doc |-> "none", line |-> 0, children |-> <<[kind |-> "Name", name |-> "", doc |-> "none", line |-> 0, children |-> <<[kind |-> "Load", name |-> "", doc |-> "none", line |-> 0, children |-> <<>>]>>], [kind |-> "If", name |-> "", doc |-> "none", line |-> 0, children |-> <<[kind |-> "Name", name |-> "", doc |-> "none", line |-> 0, children |-> <<[kind |-> "Load", name |-> "", doc |-> "none", line |-> 0, children |-> <<>>]>>], [kind |-> "Return", name |-> "", doc |-> "none", line |-> 0, children |-> <<[kind |-> "Name", name |-> "", doc |-> "none", line |-> 0, children |-> <<[kind |-> "Load", name |-> "", doc |-> "none", line |-> 0, children |-> <<>>]>>]>>]>>]>>]>>]>>]]]

\* "import os\nclass Cache:\n    def getUserData(self, ids):\n\t    out = \"\"\n\t    for i in ids:\n\t        if i in list(ids): out += str(i)\n\t    lim = [10, 20, 30]\n\t    # TODO\n\t    return eval(out)"
SrcMessy ==
  [name |-> "SrcMessy",
   lines |-> <<
     [text |-> "import os", len |-> 9, slen |-> 9, hash |-> FALSE, subs |-> {}, nums |-> 0, def |-> <<>>, imp |-> <<"os">>],
     [text |-> "class Cache:", len |-> 12, slen |-> 12, hash |-> FALSE, subs |-> {":", "class"}, nums |-> 0, def |-> <<>>, imp |-> <<>>],
     [text |-> "    def getUserData(self, ids):", len |-> 31, slen |-> 27, hash |-> FALSE, subs |-> {":", "    "}, nums |-> 0, def |-> <<[name |-> "getUserData", nonempty |-> TRUE, firstLower |-> TRUE, underscore |-> FALSE, snake |-> FALSE]>>, imp |-> <<>>],
     [text |-> "\t    out = \"\"", len |-> 13, slen |-> 8, hash |-> FALSE, subs |-> {"\t", "    ", "="}, nums |-> 0, def |-> <<>>, imp |-> <<>>],
     [text |-> "\t    for i in ids:", len |-> 18, slen |-> 13, hash |-> FALSE, subs |-> {":", "for", "\t", "    "}, nums |-> 0, def |-> <<>>, imp |-> <<>>],
     [text |-> "\t        if i in list(ids): out += str(i)", len |-> 41, slen |-> 32, hash |-> FALSE, subs |-> {":", "in list", "if", "+=", "str", "\t", "    ", "="}, nums |-> 0, def |-> <<>>, imp |-> <<>>],
     [text |-> "\t    lim = [10, 20, 30]", len |-> 23, slen |-> 18, hash |-> FALSE, subs |-> {"\t", "    ", "="}, nums |-> 3, def |-> <<>>, imp |-> <<>>],
     [text |-> "\t    # TODO", len |-> 11, slen |-> 6, hash |-> TRUE, subs |-> {"\t", "    ", "todo"}, nums |-> 0, def |-> <<>>, imp |-> <<>>],
     [text |-> "\t    return eval(out)", len |-> 21, slen |-> 16, hash |-> FALSE, subs |-> {"eval(", "\t", "    "}, nums |-> 0, def |-> <<>>, imp |-> <<>>]>>,
   parse |-> [ok |-> TRUE, errline |-> <<>>, error |-> "", tree |-> [kind |-> "Module", name |-> "", doc |-> "none", line |-> 0, children |-> <<[kind |-> "Import", name |-> "", doc |-> "none", line |-> 0, children |-> <<[kind |-> "alias", name |-> "", doc |-> "none", line |-> 0, children |-> <<>>]>>], [kind |-> "ClassDef", name |-> "Cache", doc |-> "none", line |-> 2, children |-> <<[kind |-> "FunctionDef", name |-> "getUserData", doc |-> "none", line |-> 3, children |-> <<[kind |-> "arguments", name |-> "", doc |-> "none", line |-> 0, children |-> <<[kind |-> "arg", name |-> "", doc |-> "none", line |-> 0, children |-> <<>>], [kind |-> "arg", name |-> "", doc |-> "none", line |-> 0, children |-> <<>>]>>], [kind |-> "Assign", name |-> "", doc |-> "none", line |-> 0, children |-> <<[kind |-> "Name", name |-> "", doc |-> "none", line |-> 0, children |-> <<[kind |-> "Store", name |-> "", doc |-> "none", line |-> 0, children |-> <<>>]>>], [kind |-> "Constant", name |-> "", doc |-> "none", line |-> 0, children |-> <<>>]>>], [kind |-> "For", name |-> "", doc |-> "none", line |-> 0, children |-> <<[kind |-> "Name", name |-> "", doc |-> "none", line |-> 0, children |-> <<[kind |-> "Store", name |-> "", doc |-> "none", line |-> 0, children |-> <<>>]>>], [kind |-> "Name", name |-> "", doc |-> "none", line |-> 0, children |-> <<[kind |-> "Load", name |-> "", doc |-> "none", line |-> 0, children |-> <<>>]>>], [kind |-> "If", name |-> "", doc |-> "none", line |-> 0, children |-> <<[kind |-> "Compare", name |-> "", doc |-> "none", line |-> 0, children |-> <<[kind |-> "Name", name |-> "", doc |-> "none", line |-> 0, children |-> <<[kind |-> "Load", name |-> "", doc |-> "none", line |-> 0, children |-> <<>>]>>], [kind |-> "In", name |-> "", doc |-> "none", line |-> 0, children |-> <<>>], [kind |-> "Call", name |-> "", doc |-> "none", line |-> 0, children |-> <<[kind |-> "Name", name |-> "", doc |-> "none", line |-> 0, children |-> <<[kind |-> "Load", name |-> "", doc |-> "none", line |-> 0, children |-> <<>>]>>], [kind |-> "Name", name |-> "", doc |-> "none", line |-> 0, children |-> <<[kind |-> "Load", name |-> "", doc |-> "none", line |-> 0, children |-> <<>>]>>]>>]>>], [kind |-> "AugAssign", name |-> "", doc |-> "none", line |-> 0, children |-> <<[kind |-> "Name", name |-> "", doc |-> "none", line |-> 0, children |-> <<[kind |-> "Store", name |-> "", doc |-> "none", line |-> 0, children |-> <<>>]>>], [kind |-> "Add", name |-> "", doc |-> "none", line |-> 0, children |-> <<>>], [kind |-> "Call", name |-> "", doc |-> "none", line |-> 0, children |-> <<[kind |-> "Name", name |-> "", doc |-> "none", line |-> 0, children |-> <<[kind |-> "Load", name |-> "", doc |-> "none", line |-> 0, children |-> <<>>]>>], [kind |-> "Name", name |-> "", doc |-> "none", line |-> 0, children |-> <<[kind |-> "Load", name |-> "", doc |-> "none", line |-> 0, children |-> <<>>]>>]>>]>>]>>]>>], [kind |-> "Assign", name |-> "", doc |-> "none", line |-> 0, children |-> <<[kind |-> "Name", name |-> "", doc |-> "none", line |-> 0, children |-> <<[kind |-> "Store", name |-> "", doc |-> "none", line |-> 0, children |-> <<>>]>>], [kind |-> "List", name |-> "", doc |-> "none", line |-> 0, children |-> <<[kind |-> "Constant", name |-> "", doc |-> "none", line |-> 0, children |-> <<>>], [kind |-> "Constant", name |-> "", doc |-> "none", line |-> 0, children |-> <<>>], [kind |-> "Constant", name |-> "", doc |-> "none", line |-> 0, children |-> <<>>], [kind |-> "Load", name |-> "", doc |-> "none", line |-> 0, children |-> <<>>]>>]>>], [kind |-> "Return", name |-> "", doc |-> "none", line |-> 0, children |-> <<[kind |-> "Call", name |-> "", doc |-> "none", line |-> 0, children |-> <<[kind |-> "Name", name |-> "", doc |-> "none", line |-> 0, children |-> <<[kind |-> "Load", name |-> "", doc |-> "none", line |-> 0, children |-> <<>>]>>], [kind |-> "Name", name |-> "", doc |-> "none", line |-> 0, children |-> <<[kind |-> "Load", name |-> "", doc |-> "none", line |-> 0, children |-> <<>>]>>]>>]>>]>>]>>]>>]]]

\* "def h(a):\n    \"d\"\n    if a:\n        if a:\n            if a:\n                if a:\n                    return a"
SrcDeep4 ==
  [name |-> "SrcDeep4",
   lines |-> <<
     [text |-> "def h(a):", len |-> 9, slen |-> 9, hash |-> FALSE, subs |-> {":"}, nums |-> 0, def |-> <<[name |-> "h", nonempty |-> TRUE, firstLower |-> TRUE, underscore |-> FALSE, snake |-> TRUE]>>, imp |-> <<>>],
     [text |-> "    \"d\"", len |-> 7, slen |-> 3, hash |-> FALSE, subs |-> {"    "}, nums |-> 0, def |-> <<>>, imp |-> <<>>],
     [text |-> "    if a:", len |-> 9, slen |-> 5, hash |-> FALSE, subs |-> {":", "if", "    "}, nums |-> 0, def |-> <<>>, imp |-> <<>>],
     [text |-> "        if a:", len |-> 13, slen |-> 5, hash |-> FALSE, subs |-> {":", "if", "    "}, nums |-> 0, def |-> <<>>, imp |-> <<>>],
     [text |-> "            if a:", len |-> 17, slen |-> 5, hash |-> FALSE, subs |-> {":", "if", "    "}, nums |-> 0, def |-> <<>>, imp |-> <<>>],
     [text |-> "                if a:", len |-> 21, slen |-> 5, hash |-> FALSE, subs |-> {":", "if", "    "}, nums |-> 0, def |-> <<>>, imp |-> <<>>],
     [text |-> "                    return a", len |-> 28, slen |-> 8, hash |-> FALSE, subs |-> {"    "}, nums |-> 0, def |-> <<>>, imp |-> <<>>]>>,
   parse |-> [ok |-> TRUE, errline |-> <<>>, error |-> "", tree |-> [kind |-> "Module", name |-> "", doc |-> "none", line |-> 0, children |-> <<[kind |-> "FunctionDef", name |-> "h", doc |-> "text", line |-> 1, children |-> <<[kind |-> "arguments", name |-> "", doc |-> "none", line |-> 0, children |-> <<[kind |-> "arg", name |-> "", doc |-> "none", line |-> 0, children |-> <<>>]>>], [kind |-> "Expr", name |-> "", doc |-> "none", line |-> 0, children |-> <<[kind |-> "Constant", name |-> "", doc |-> "none", line |-> 0, children |-> <<>>]>>], [kind |-> "If", name |-> "", doc |-> "none", line |-> 0, children |-> <<[kind |-> "Name", name |-> "", doc |-> "none", line |-> 0, children |-> <<[kind |-> "Load", name |-> "", doc |-> "none", line |-> 0, children |-> <<>>]>>], [kind |-> "If", name |-> "", doc |-> "none", line |-> 0, children |-> <<[kind |-> "Name", name |-> "", doc |-> "none", line |-> 0, children |-> <<[kind |-> "Load", name |-> "", doc |-> "none", line |-> 0, children |-> <<>>]>>], [kind |-> "If", name |-> "", doc |-> "none", line |-> 0, children |-> <<[kind |-> "Name", name |-> "", doc |-> "none", line |-> 0, children |-> <<[kind |-> "Load", name |-> "", doc |-> "none", line |-> 0, children |-> <<>>]>>], [kind |-> "If", name |-> "", doc |-> "none", line |-> 0, children |-> <<[kind |-> "Name", name |-> "", doc |-> "none", line |-> 0, children |-> <<[kind |-> "Load", name |-> "", doc |-> "none", line |-> 0, children |-> <<>>]>>], [kind |-> "Return", name |-> "", doc |-> "none", line |-> 0, children |-> <<[kind |-> "Name", name |-> "", doc |-> "none", line |-> 0, children |-> <<[kind |-> "Load", name |-> "", doc |-> "none", line |-> 0, children |-> <<>>]>>]>>]>>]>>]>>]>>]>>]>>]]]

\* "password_1 = \"x\"\npassword_2 = \"x\"\npassword_3 = \"x\"\npassword_4 = \"x\"\npassword_5 = \"x\"\npassword_6 = \"x\"\napi_key = \"k\""
SrcSecrets6 ==
  [name |-> "SrcSecrets6",
   lines |-> <<
     [text |-> "password_1 = \"x\"", len |-> 16, slen |-> 16, hash |-> FALSE, subs |-> {"password", "="}, nums |-> 0, def |-> <<>>, imp |-> <<>>],
     [text |-> "password_2 = \"x\"", len |-> 16, slen |-> 16, hash |-> FALSE, subs |-> {"password", "="}, nums |-> 0, def |-> <<>>, imp |-> <<>>],
     [text |-> "password_3 = \"x\"", len |-> 16, slen |-> 16, hash |-> FALSE, subs |-> {"password", "="}, nums |-> 0, def |-> <<>>, imp |-> <<>>],
     [text |-> "password_4 = \"x\"", len |-> 16, slen |-> 16, hash |-> FALSE, subs |-> {"password", "="}, nums |-> 0, def |-> <<>>, imp |-> <<>>],
     [text |-> "password_5 = \"x\"", len |-> 16, slen |-> 16, hash |-> FALSE, subs |-> {"password", "="}, nums |-> 0, def |-> <<>>, imp |-> <<>>],
     [text |-> "password_6 = \"x\"", len |-> 16, slen |-> 16, hash |-> FALSE, subs |-> {"password", "="}, nums |-> 0, def |-> <<>>, imp |-> <<>>],
     [text |-> "api_key = \"k\"", len |-> 13, slen |-> 13, hash |-> FALSE, subs |-> {"api_key", "="}, nums |-> 0, def |-> <<>>, imp |-> <<>>]>>,
   parse |-> [ok |-> TRUE, errline |-> <<>>, error |-> "", tree |-> [kind |-> "Module", name |-> "", doc |-> "none", line |-> 0, children |-> <<[kind |-> "Assign", name |-> "", doc |-> "none", line |-> 0, children |-> <<[kind |-> "Name", name |-> "", doc |-> "none", line |-> 0, children |-> <<[kind |-> "Store", name |-> "", doc |-> "none", line |-> 0, children |-> <<>>]>>], [kind |-> "Constant", name |-> "", doc |-> "none", line |-> 0, children |-> <<>>]>>], [kind |-> "Assign", name |-> "", doc |-> "none", line |-> 0, children |-> <<[kind |-> "Name", name |-> "", doc |-> "none", line |-> 0, children |-> <<[kind |-> "Store", name |-> "", doc |-> "none", line |-> 0, children |-> <<>>]>>], [kind |-> "Constant", name |-> "", doc |-> "none", line |-> 0, children |-> <<>>]>>], [kind |-> "Assign", name |-> "", doc |-> "none", line |-> 0, children |-> <<[kind |-> "Name", name |-> "", doc |-> "none", line |-> 0, children |-> <<[kind |-> "Store", name |-> "", doc |-> "none", line |-> 0, children |-> <<>>]>>], [kind |-> "Constant", name |-> "", doc |-> "none", line |-> 0, children |-> <<>>]>>], [kind |-> "Assign", name |-> "", doc |-> "none", line |-> 0, children |-> <<[kind |-> "Name", name |-> "", doc |-> "none", line |-> 0, children |-> <<[kind |-> "Store", name |-> "", doc |-> "none", line |-> 0, children |-> <<>>]>>], [kind |-> "Constant", name |-> "", doc |-> "none", line |-> 0, children |-> <<>>]>>], [kind |-> "Assign", name |-> "", doc |-> "none", line |-> 0, children |-> <<[kind |-> "Name", name |-> "", doc |-> "none", line |-> 0, children |-> <<[kind |-> "Store", name |-> "", doc |-> "none", line |-> 0, children |-> <<>>]>>], [kind |-> "Constant", name |-> "", doc |-> "none", line |-> 0, children |-> <<>>]>>], [kind |-> "Assign", name |-> "", doc |-> "none", line |-> 0, children |-> <<[kind |-> "Name", name |-> "", doc |-> "none", line |-> 0, children |-> <<[kind |-> "Store", name |-> "", doc |-> "none", line |-> 0, children |-> <<>>]>>], [kind |-> "Constant", name |-> "", doc |-> "none", line |-> 0, children |-> <<>>]>>], [kind |-> "Assign", name |-> "", doc |-> "none", line |-> 0, children |-> <<[kind |-> "Name", name |-> "", doc |-> "none", line |-> 0, children |-> <<[kind |-> "Store", name |-> "", doc |-> "none", line |-> 0, children |-> <<>>]>>], [kind |-> "Constant", name |-> "", doc |-> "none", line |-> 0, children |-> <<>>]>>]>>]]]

\* "import random\ntoken = random.randint(1, 6)"
SrcRandom ==
  [name |-> "SrcRandom",
   lines |-> <<
     [text |-> "import random", len |-> 13, slen |-> 13, hash |-> FALSE, subs |-> {}, nums |-> 0, def |-> <<>>, imp |-> <<"random">>],
     [text |-> "token = random.randint(1, 6)", len |-> 28, slen |-> 28, hash |-> FALSE, subs |-> {"token", "random.", "randint", "="}, nums |-> 2, def |-> <<>>, imp |-> <<>>]>>,
   parse |-> [ok |-> TRUE, errline |-> <<>>, error |-> "", tree |-> [kind |-> "Module", name |-> "", doc |-> "none", line |-> 0, children |-> <<[kind |-> "Import", name |-> "", doc |-> "none", line |-> 0, children |-> <<[kind |-> "alias", name |-> "", doc |-> "none", line |-> 0, children |-> <<>>]>>], [kind |-> "Assign", name |-> "", doc |-> "none", line |-> 0, children |-> <<[kind |-> "Name", name |-> "", doc |-> "none", line |-> 0, children |-> <<[kind |-> "Store", name |-> "", doc |-> "none", line |-> 0, children |-> <<>>]>>], [kind |-> "Call", name |-> "", doc |-> "none", line |-> 0, children |-> <<[kind |-> "Attribute", name |-> "", doc |-> "none", line |-> 0, children |-> <<[kind |-> "Name", name |-> "", doc |-> "none", line |-> 0, children |-> <<[kind |-> "Load", name |-> "", doc |-> "none", line |-> 0, children |-> <<>>]>>], [kind |-> "Load", name |-> "", doc |-> "none", line |-> 0, children |-> <<>>]>>], [kind |-> "Constant", name |-> "", doc |-> "none", line |-> 0, children |-> <<>>], [kind |-> "Constant", name |-> "", doc |-> "none", line |-> 0, children |-> <<>>]>>]>>]>>]]]

\* "x = 1\ny = -x"
SrcNegate ==
  [name |-> "SrcNegate",
   lines |-> <<
     [text |-> "x = 1", len |-> 5, slen |-> 5, hash |-> FALSE, subs |-> {"="}, nums |-> 1, def |-> <<>>, imp |-> <<>>],
     [text |-> "y = -x", len |-> 6, slen |-> 6, hash |-> FALSE, subs |-> {"="}, nums |-> 0, def |-> <<>>, imp |-> <<>>]>>,
   parse |-> [ok |-> TRUE, errline |-> <<>>, error |-> "", tree |-> [kind |-> "Module", name |-> "", doc |-> "none", line |-> 0, children |-> <<[kind |-> "Assign", name |-> "", doc |-> "none", line |-> 0, children |-> <<[kind |-> "Name", name |-> "", doc |-> "none", line |-> 0, children |-> <<[kind |-> "Store", name |-> "", doc |-> "none", line |-> 0, children |-> <<>>]>>], [kind |-> "Constant", name |-> "", doc |-> "none", line |-> 0, children |-> <<>>]>>], [kind |-> "Assign", name |-> "", doc |-> "none", line |-> 0, children |-> <<[kind |-> "Name", name |-> "", doc |-> "none", line |-> 0, children |-> <<[kind |-> "Store", name |-> "", doc |-> "none", line |-> 0, children |-> <<>>]>>], [kind |-> "UnaryOp", name |-> "", doc |-> "none", line |-> 0, children |-> <<[kind |-> "USub", name |-> "", doc |-> "none", line |-> 0, children |-> <<>>], [kind |-> "Name", name |-> "", doc |-> "none", line |-> 0, children |-> <<[kind |-> "Load", name |-> "", doc |-> "none", line |-> 0, children |-> <<>>]>>]>>]>>]>>]]]

\* "def GetUser(x):\n    return x\ndef get_user(x):\n    return x\ndef Get_User(x):\n    return x\ndef getUser(x):\n    return x"
SrcNames ==
  [name |-> "SrcNames",
   lines |-> <<
     [text |-> "def GetUser(x):", len |-> 15, slen |-> 15, hash |-> FALSE, subs |-> {":"}, nums |-> 0, def |-> <<[name |-> "GetUser", nonempty |-> TRUE, firstLower |-> FALSE, underscore |-> FALSE, snake |-> FALSE]>>, imp |-> <<>>],
     [text |-> "    return x", len |-> 12, slen |-> 8, hash |-> FALSE, subs |-> {"    "}, nums |-> 0, def |-> <<>>, imp |-> <<>>],
     [text |-> "def get_user(x):", len |-> 16, slen |-> 16, hash |-> FALSE, subs |-> {":"}, nums |-> 0, def |-> <<[name |-> "get_user", nonempty |-> TRUE, firstLower |-> TRUE, underscore |-> TRUE, snake |-> TRUE]>>, imp |-> <<>>],
     [text |-> "    return x", len |-> 12, slen |-> 8, hash |-> FALSE, subs |-> {"    "}, nums |-> 0, def |-> <<>>, imp |-> <<>>],
     [text |-> "def Get_User(x):", len |-> 16, slen |-> 16, hash |-> FALSE, subs |-> {":"}, nums |-> 0, def |-> <<[name |-> "Get_User", nonempty |-> TRUE, firstLower |-> FALSE, underscore |-> TRUE, snake |-> FALSE]>>, imp |-> <<>>],
     [text |-> "    return x", len |-> 12, slen |-> 8, hash |-> FALSE, subs |-> {"    "}, nums |-> 0, def |-> <<>>, imp |-> <<>>],
     [text |-> "def getUser(x):", len |-> 15, slen |-> 15, hash |-> FALSE, subs |-> {":"}, nums |-> 0, def |-> <<[name |-> "getUser", nonempty |-> TRUE, firstLower |-> TRUE, underscore |-> FALSE, snake |-> FALSE]>>, imp |-> <<>>],
     [text |-> "    return x", len |-> 12, slen |-> 8, hash |-> FALSE, subs |-> {"    "}, nums |-> 0, def |-> <<>>, imp |-> <<>>]>>,
   parse |-> [ok |-> TRUE, errline |-> <<>>, error |-> "", tree |-> [kind |-> "Module", name |-> "", doc |-> "none", line |-> 0, children |-> <<[kind |-> "FunctionDef", name |-> "GetUser", doc |-> "none", line |-> 1, children |-> <<[kind |-> "arguments", name |-> "", doc |-> "none", line |-> 0, children |-> <<[kind |-> "arg", name |-> "", doc |-> "none", line |-> 0, children |-> <<>>]>>], [kind |-> "Return", name |-> "", doc |-> "none", line |-> 0, children |-> <<[kind |-> "Name", name |-> "", doc |-> "none", line |-> 0, children |-> <<[kind |-> "Load", name |-> "", doc |-> "none", line |-> 0, children |-> <<>>]>>]>>]>>], [kind |-> "FunctionDef", name |-> "get_user", doc |-> "none", line |-> 3, children |-> <<[kind |-> "arguments", name |-> "", doc |-> "none", line |-> 0, children |-> <<[kind |-> "arg", name |-> "", doc |-> "none", line |-> 0, children |-> <<>>]>>], [kind |-> "Return", name |-> "", doc |-> "none", line |-> 0, children |-> <<[kind |-> "Name", name |-> "", doc |-> "none", line |-> 0, children |-> <<[kind |-> "Load", name |-> "", doc |-> "none", line |-> 0, children |-> <<>>]>>]>>]>>], [kind |-> "FunctionDef", name |-> "Get_User", doc |-> "none", line |-> 5, children |-> <<[kind |-> "arguments", name |-> "", doc |-> "none", line |-> 0, children |-> <<[kind |-> "arg", name |-> "", doc |-> "none", line |-> 0, children |-> <<>>]>>], [kind |-> "Return", name |-> "", doc |-> "none", line |-> 0, children |-> <<[kind |-> "Name", name |-> "", doc |-> "none", line |-> 0, children |-> <<[kind |-> "Load", name |-> "", doc |-> "none", line |-> 0, children |-> <<>>]>>]>>]>>], [kind |-> "FunctionDef", name |-> "getUser", doc |-> "none", line |-> 7, children |-> <<[kind |-> "arguments", name |-> "", doc |-> "none", line |-> 0, children |-> <<[kind |-> "arg", name |-> "", doc |-> "none", line |-> 0, children |-> <<>>]>>], [kind |-> "Return", name |-> "", doc |-> "none", line |-> 0, children |-> <<[kind |-> "Name", name |-> "", doc |-> "none", line |-> 0, children |-> <<[kind |-> "Load", name |-> "", doc |-> "none", line |-> 0, children |-> <<>>]>>]>>]>>]>>]]]

\* "Looks good."
VClean ==
  <<[text |-> "Looks good.", subs |-> {}, num |-> <<>>]>>

\* "Analysis Results:\n\nNo syntax errors detected.\nCheck the indentation warning\nsee line 3: tab"
VSyntax ==
  <<[text |-> "Analysis Results:", subs |-> {":"}, num |-> <<>>],
    [text |-> "", subs |-> {}, num |-> <<>>],
    [text |-> "No syntax errors detected.", subs |-> {"error"}, num |-> <<>>],
    [text |-> "Check the indentation warning", subs |-> {"warning"}, num |-> <<>>],
    [text |-> "see line 3: tab", subs |-> {"line", ":"}, num |-> <<3>>]>>

\* "CRITICAL: Hardcoded password is a security risk\nline 12\nmore context\nHIGH: SQL injection vulnerability\nLow priority: insecure default"
VSecurity ==
  <<[text |-> "CRITICAL: Hardcoded password is a security risk", subs |-> {":", "security", "risk", "critical", "password"}, num |-> <<>>],
    [text |-> "line 12", subs |-> {"line"}, num |-> <<12>>],
    [text |-> "more context", subs |-> {}, num |-> <<>>],
    [text |-> "HIGH: SQL injection vulnerability", subs |-> {":", "vulnerability", "high", "sql"}, num |-> <<>>],
    [text |-> "Low priority: insecure default", subs |-> {":", "insecure", "low"}, num |-> <<>>]>>

\* "HIGH IMPACT: nested loops are a performance bottleneck\nLine 12-14: loop\nThis lookup is slow\nMinor optimization possible"
VPerformance ==
  <<[text |-> "HIGH IMPACT: nested loops are a performance bottleneck", subs |-> {":", "high", "performance", "bottleneck", "for"}, num |-> <<>>],
    [text |-> "Line 12-14: loop", subs |-> {"line", ":"}, num |-> <<12>>],
    [text |-> "This lookup is slow", subs |-> {"low", "slow"}, num |-> <<>>],
    [text |-> "Minor optimization possible", subs |-> {"optimization", "minor"}, num |-> <<>>]>>

\* "MAJOR: Naming convention violation\nat line 16 and line 20\nMINOR: formatting of long lines"
VStyle ==
  <<[text |-> "MAJOR: Naming convention violation", subs |-> {":", "naming", "convention", "major", "violation"}, num |-> <<>>],
    [text |-> "at line 16 and line 20", subs |-> {"line"}, num |-> <<16>>],
    [text |-> "MINOR: formatting of long lines", subs |-> {"line", ":", "minor", "format", "for"}, num |-> <<>>]>>

\* "MEDIUM: violation of the single responsibility principle\nSOLID, see line 7\nCritical design flaw"
VBestPractices ==
  <<[text |-> "MEDIUM: violation of the single responsibility principle", subs |-> {":", "violation", "principle", "medium"}, num |-> <<>>],
    [text |-> "SOLID, see line 7", subs |-> {"line", "solid"}, num |-> <<7>>],
    [text |-> "Critical design flaw", subs |-> {"critical", "design"}, num |-> <<>>]>>

\* "HIGH: Missing docstrings for all functions\n- Functions: f, g\nMinor comment typo\nThe module documentation could be longer"
VDocumentation ==
  <<[text |-> "HIGH: Missing docstrings for all functions", subs |-> {":", "high", "docstring", "missing", "function", "for", "str"}, num |-> <<>>],
    [text |-> "- Functions: f, g", subs |-> {":", "function"}, num |-> <<>>],
    [text |-> "Minor comment typo", subs |-> {"minor", "comment"}, num |-> <<>>],
    [text |-> "The module documentation could be longer", subs |-> {"documentation"}, num |-> <<>>]>>

\* the lines the verdict-parser inputs are made of
VerdictLines ==
  {[text |-> "CRITICAL: issue found", subs |-> {"issue", ":", "critical"}, num |-> <<>>],
   [text |-> "CRITICAL: security issue found", subs |-> {"issue", ":", "security", "critical"}, num |-> <<>>],
   [text |-> "line 12", subs |-> {"line"}, num |-> <<12>>],
   [text |-> "more context", subs |-> {}, num |-> <<>>],
   [text |-> "see line 40", subs |-> {"line"}, num |-> <<40>>],
   [text |-> "Medium risk, low likelihood", subs |-> {"risk", "low", "medium"}, num |-> <<>>],
   [text |-> "HIGH: missing docstring", subs |-> {":", "high", "docstring", "missing", "str"}, num |-> <<>>],
   [text |-> "HIGH: unclear comment", subs |-> {":", "high", "comment", "unclear"}, num |-> <<>>],
   [text |-> "Low priority naming nit", subs |-> {"low", "naming"}, num |-> <<>>],
   [text |-> "This loop is slow", subs |-> {"low", "slow"}, num |-> <<>>],
   [text |-> "violation of the DRY principle", subs |-> {"violation", "principle", "dry"}, num |-> <<>>],
   [text |-> "An error in formatting", subs |-> {"error", "format", "for"}, num |-> <<>>],
   [text |-> "insecure default at line 4", subs |-> {"line", "insecure"}, num |-> <<4>>]}

Sources == {SrcEmpty, SrcSpaces, SrcClean, SrcSecret, SrcBroken, SrcBranchy,
            SrcNested, SrcMessy}

\* the (code, language) pairs a review is called with
Requests ==
  {[src |-> s, lang |-> "python"] : s \in Sources}
  \cup {[src |-> SrcNested, lang |-> "Python"],
        [src |-> SrcSecret, lang |-> "javascript"]}

MaxListed == 2

\* include_agents: None, or a list of dimension names: the empty list, every
\* list of up to MaxListed names, and the list of all six
IncludeArgs == {[none |-> TRUE, names |-> {}]}
               \cup {[none |-> FALSE, names |-> S] :
                       S \in {T \in SUBSET Dims : Cardinality(T) <= MaxListed \/ T = Dims}}

MockVerdict(d) ==
  CASE d = "syntax" -> VSyntax
    [] d = "security" -> VSecurity
    [] d = "performance" -> VPerformance
    [] d = "style" -> VStyle
    [] d = "best_practices" -> VBestPractices
    [] d = "documentation" -> VDocumentation

\* what the Reviewer does with the call of dimension d: it fails, or answers
Outcomes(d) ==
  {[ok |-> FALSE, err |-> "rate limit", text |-> <<>>]}
  \cup {[ok |-> TRUE, err |-> "", text |-> v] : v \in {VClean, MockVerdict(d)}}

----------------------------------------------------------------------------
(* review(code, language, include_agents), one action per block *)

NoResults == [d \in {} |-> SkippedResult(<<>>)]

NoSource == [name |-> "", lines |-> <<>>, parse |-> <<>>]

Init ==
  /\ pc = "idle"
  /\ code = NoSource
  /\ language = ""
  /\ include_agents = [none |-> TRUE, names |-> {}]
  /\ metrics = <<>>
  /\ dependencies = <<>>
  /\ agent_results = NoResults
  /\ summary = <<>>
  /\ raised = <<>>
  /\ calls = <<>>
  /\ probe = <<>>
  /\ probe_out = <<>>

\* the call
CallReview ==
  /\ pc = "idle"
  /\ \E q \in Requests, inc \in IncludeArgs :
       /\ code' = q.src
       /\ language' = q.lang
       /\ include_agents' = inc
  /\ pc' = "validate"
  /\ UNCHANGED <<metrics, dependencies, agent_results, summary, raised, calls>>
  /\ UNCHANGED probeVars

\* lines 96-97
ValidateInput ==
  /\ pc = "validate"
  /\ IF IsBlank(code)
     THEN raised' = <<"Code cannot be empty">> /\ pc' = "raised"
     ELSE raised' = raised /\ pc' = "metrics"
  /\ UNCHANGED <<code, language, include_agents, metrics, dependencies,
                 agent_results, summary, calls>>
  /\ UNCHANGED probeVars

\* lines 113-124
ComputeMetrics ==
  /\ pc = "metrics"
  /\ metrics' = <<CalculateMetrics(code, language)>>
  /\ dependencies' = <<CheckDependencies(code, language)>>
  /\ pc' = "syntax"
  /\ UNCHANGED <<code, language, include_agents, agent_results, summary, raised, calls>>
  /\ UNCHANGED probeVars

\* self.<d>_agent.review(code, language, ...) of the block of dimension d
ReviewOf(d, src, lang, o) ==
  CASE d = "syntax" -> SyntaxReview(src, lang, o)
    [] d = "security" -> SecurityReview(src, lang, o)
    [] d = "performance" -> PerformanceReview(src, lang, o)
    [] d = "style" -> StyleReview(src, lang, o)
    [] d = "best_practices" -> BestPracticesReview(src, lang, o)
    [] d = "documentation" -> DocumentationReview(src, lang, o)

\* one try block: dimension d, then on to `next`
RunAgent(d, next) ==
  /\ pc = d
  /\ IF Selected(include_agents, d)
     THEN \E o \in Outcomes(d) :
            /\ agent_results' = (d :> TryReview(ReviewOf(d, code, language, o))) @@ agent_results
            /\ calls' = Append(calls, [dim |-> d, outcome |-> o])
     ELSE UNCHANGED <<agent_results, calls>>
  /\ pc' = next
  /\ UNCHANGED <<code, language, include_agents, metrics, dependencies, summary, raised>>
  /\ UNCHANGED probeVars

RunSyntax == RunAgent("syntax", "security")

RunSecurity == RunAgent("security", "performance")

RunPerformance == RunAgent("performance", "style")

RunStyle == RunAgent("style", "best_practices")

RunBestPractices == RunAgent("best_practices", "documentation")

RunDocumentation == RunAgent("documentation", "summary")

\* line 170 and the return
Summarize ==
  /\ pc = "summary"
  /\ summary' = <<GenerateSummary(agent_results)>>
  /\ agent_results' = TagResults(agent_results)
  /\ pc' = "done"
  /\ UNCHANGED <<code, language, include_agents, metrics, dependencies, raised, calls>>
  /\ UNCHANGED probeVars

Next ==
  \/ CallReview
  \/ ValidateInput
  \/ ComputeMetrics
  \/ RunSyntax
  \/ RunSecurity
  \/ RunPerformance
  \/ RunStyle
  \/ RunBestPractices
  \/ RunDocumentation
  \/ Summarize

Spec == Init /\ [][Next]_vars

----------------------------------------------------------------------------
(* The scoring rules on their own: a dimension, the findings of one run of  *)
(* it and the structural facts its score reads.                             *)

MaxRun == 11

MaxItems == 5

\* the severities (impacts, for performance) a dimension's findings carry
LevelsOf(d) ==
  CASE d = "syntax" -> {"high", "medium"}
    [] d = "security" -> {"critical", "high", "medium", "low"}
    [] d = "performance" -> {"high", "medium", "low"}
    [] d = "style" -> {"minor", "major"}
    [] d = "best_practices" -> {"medium"}
    [] d = "documentation" -> {"high", "medium", "low"}

\* a finding of dimension d at level s, as the dimension's verdict parser makes it
ProbeFinding(d, s) ==
  IF d = "performance"
  THEN Finding("performance_issue", <<>>, <<s>>, <<"x">>, <<>>, <<d>>)
  ELSE Finding("issue", <<s>>, <<>>, <<"x">>, <<>>, <<d>>)

ComplexitySamples(d) ==
  IF d = "performance"
  THEN {<<>>} \cup {<<[cyclomatic |-> c, max_nesting |-> n,
                       function_count |-> 0, class_count |-> 0]>> :
                      c \in {1, 10, 11, 20, 21}, n \in {0, 3, 4, 5}}
  ELSE {<<>>}

StatsSamples(d) ==
  IF d = "documentation"
  THEN {<<>>} \cup {<<DocstringStats(Min2(k, n), n, 0, 0)>> :
                      k \in 0..MaxItems, n \in 0..MaxItems}
  ELSE {<<>>}

\* the findings the dimension's own detector adds for these structural facts
ProbeHeuristics(d, cm, stats, valid) ==
  CASE d = "syntax" ->
         IF valid THEN <<>>
         ELSE <<Finding("syntax_error", <<"critical">>, <<>>, <<"x">>, <<1>>, <<"syntax">>)>>
    [] d = "performance" -> IdentifyPerformancePatterns(NoSource, "python", cm)
    [] d = "documentation" -> CheckDocumentationPatterns(NoSource, "python", stats)
    [] OTHER -> <<>>

ValidSamples(d) == IF d = "syntax" THEN BOOLEAN ELSE {TRUE}

\* the findings of a probe: the detector's own, then n1 at level s1 and n2 at
\* level s2 as parsed from the Reviewer's answer
ProbeIssues(p) ==
  ProbeHeuristics(p.dim, p.complexity_metrics, p.docstring_stats, p.syntax_valid)
  \o Repeat(ProbeFinding(p.dim, p.s1), p.n1) \o Repeat(ProbeFinding(p.dim, p.s2), p.n2)

InitScore ==
  /\ pc = "score"
  /\ code = NoSource
  /\ language = ""
  /\ include_agents = [none |-> TRUE, names |-> {}]
  /\ metrics = <<>>
  /\ dependencies = <<>>
  /\ agent_results = NoResults
  /\ summary = <<>>
  /\ raised = <<>>
  /\ calls = <<>>
  /\ \E d \in Dims :
       \E l1 \in LevelsOf(d), l2 \in LevelsOf(d), k1 \in 0..MaxRun, k2 \in 0..MaxRun,
          cm \in ComplexitySamples(d), stats \in StatsSamples(d), valid \in ValidSamples(d) :
         probe = <<[dim |-> d, s1 |-> l1, n1 |-> k1, s2 |-> l2, n2 |-> k2,
                    complexity_metrics |-> cm, docstring_stats |-> stats,
                    syntax_valid |-> valid]>>
  /\ probe_out = <<>>

\* the score the code gives the probe's dimension
ScoreOf(d, score) ==
  /\ pc = "score"
  /\ probe_out = <<>>
  /\ probe[1].dim = d
  /\ probe_out' = <<score>>
  /\ UNCHANGED probe
  /\ UNCHANGED reviewVars

ScoreSyntax == ScoreOf("syntax", SyntaxScore(probe[1].syntax_valid))

ScoreSecurity == ScoreOf("security", CalculateSecurityScore(ProbeIssues(probe[1])))

ScorePerformance ==
  ScoreOf("performance",
          CalculatePerformanceScore(ProbeIssues(probe[1]), probe[1].complexity_metrics))

ScoreStyle == ScoreOf("style", CalculateStyleScore(ProbeIssues(probe[1])))

ScoreBestPractices == ScoreOf("best_practices", CalculateBestPracticesScore(ProbeIssues(probe[1])))

ScoreDocumentation ==
  ScoreOf("documentation",
          CalculateDocumentationScore(ProbeIssues(probe[1]), probe[1].docstring_stats))

NextScore ==
  \/ ScoreSyntax
  \/ ScoreSecurity
  \/ ScorePerformance
  \/ ScoreStyle
  \/ ScoreBestPractices
  \/ ScoreDocumentation

SpecScore == InitScore /\ [][NextScore]_vars

----------------------------------------------------------------------------
(* Properties of review() and of the scoring rules *)

\* the dimensions a request asks for: the names of include_agents, and all
\* six when include_agents is None or names nothing
RequestedDims ==
  IF include_agents.none \/ include_agents.names = {} THEN Dims ELSE include_agents.names

AllWhitespace == \A i \in 1..Len(code.lines) : code.lines[i].slen = 0

\* the Reviewer calls made for dimension d
CallsOf(d) == SelectSeq(calls, LAMBDA c : c.dim = d)

AllCallsFailed == \A i \in 1..Len(calls) : ~calls[i].outcome.ok

\* the position of the review among its six blocks: 7 once all are behind it
Position ==
  IF pc \in Dims THEN CHOOSE k \in 1..Len(DimOrder) : DimOrder[k] = pc
  ELSE IF pc \in {"summary", "done"} THEN Len(DimOrder) + 1
  ELSE 1

\* the dimensions that returned a result of their own
Succeeded == {d \in DOMAIN agent_results : ~agent_results[d].skipped}

FindingsOf(d) == agent_results[d].issues \o agent_results[d].vulnerabilities

\* the level of a finding on its dimension's axis: "severity", or "impact"
Level(f) ==
  IF f.severity /= <<>> THEN f.severity[1]
  ELSE IF f.impact /= <<>> THEN f.impact[1]
  ELSE "unset"

LevelsCollected ==
  UNION {{Level(FindingsOf(d)[i]) : i \in 1..Len(FindingsOf(d))} : d \in Succeeded}

CountAt(lv) ==
  SumSeq([k \in 1..Len(DimOrder) |->
            IF DimOrder[k] \in Succeeded
            THEN Cardinality({i \in 1..Len(FindingsOf(DimOrder[k])) :
                                Level(FindingsOf(DimOrder[k])[i]) = lv})
            ELSE 0])

TotalCollected ==
  SumSeq([k \in 1..Len(DimOrder) |->
            IF DimOrder[k] \in Succeeded THEN Len(FindingsOf(DimOrder[k])) ELSE 0])

\* C1: when the review has returned, every requested dimension was called
\* exactly once and has an entry; the entry of a dimension whose Reviewer call
\* raised is the skipped marker carrying the error message, which ends with
\* the Reviewer's own error text; the entry of a dimension whose call answered
\* is its own result, the one the dimension yields for this source and this
\* answer alone, whatever happened to the other dimensions; and no exception
\* has left review() once a Reviewer call was made.
FailureIsolation ==
  /\ (calls /= <<>> => raised = <<>>)
  /\ pc = "done" =>
       \A d \in RequestedDims :
         /\ Len(CallsOf(d)) = 1
         /\ d \in DOMAIN agent_results
         /\ LET o == CallsOf(d)[1].outcome
                r == agent_results[d]
                alone == ReviewOf(d, code, language, o)
            IN /\ IF o.ok
                  THEN ~r.skipped /\ r.error = <<>> /\ r.analysis = o.text
                  ELSE /\ r.skipped
                       /\ r.error /= <<>>
                       /\ r.error[Len(r.error)] = o.err
                       /\ r = SkippedResult(r.error)
               /\ r = TagResults(d :> (IF alone.raised THEN SkippedResult(alone.msg)
                                       ELSE alone.value))[d]

\* a review returned in which one dimension's Reviewer call raised and a later
\* dimension's call answered and produced findings
FailureIsolationWitness ==
  /\ pc = "done"
  /\ \E i, j \in 1..Len(calls) :
       /\ i < j
       /\ ~calls[i].outcome.ok
       /\ calls[j].outcome.ok
       /\ agent_results[calls[i].dim].skipped
       /\ FindingsOf(calls[j].dim) /= <<>>

\* C2: review() raises only for an all-whitespace source; for any other source
\* it always has a next step until it returns; the entries made so far are
\* exactly the requested dimensions whose block is behind it (none is lost on
\* the way); and what it returns has a summary and one entry per requested
\* dimension, all six for the default request.
OneEntryPerRequested ==
  /\ (pc = "raised" => AllWhitespace)
  /\ (pc \in Dims \cup {"metrics", "summary"} => ENABLED Next)
  /\ (pc \notin {"idle", "validate", "raised"} =>
        DOMAIN agent_results =
          {DimOrder[k] : k \in {j \in 1..Len(DimOrder) :
                                  j < Position /\ DimOrder[j] \in RequestedDims}})
  /\ (pc = "done" =>
        /\ summary /= <<>>
        /\ DOMAIN agent_results = RequestedDims
        /\ (include_agents.none => DOMAIN agent_results = Dims))

\* a review of two requested dimensions returned with one of them failed
OneEntryPerRequestedWitness ==
  /\ pc = "done"
  /\ ~include_agents.none
  /\ Cardinality(include_agents.names) = 2
  /\ DOMAIN agent_results = include_agents.names
  /\ \E d \in DOMAIN agent_results : agent_results[d].skipped
  /\ \E d \in DOMAIN agent_results : ~agent_results[d].skipped

\* C3: a review called with an empty or all-whitespace source goes from its
\* input check straight to the error "Code cannot be empty": it computes no
\* metric and no dependency list, makes no Reviewer call, creates no dimension
\* entry and no summary.
BlankSourceRaises ==
  (pc /= "idle" /\ AllWhitespace) =>
    /\ pc \in {"validate", "raised"}
    /\ (pc = "validate" => ENABLED ValidateInput)
    /\ (pc = "raised" => raised = <<"Code cannot be empty">>)
    /\ metrics = <<>>
    /\ dependencies = <<>>
    /\ calls = <<>>
    /\ DOMAIN agent_results = {}
    /\ summary = <<>>

\* the review of a source of three spaces has raised
BlankSourceRaisesWitness ==
  /\ pc = "raised"
  /\ code = SrcSpaces
  /\ raised /= <<>>

\* C4: when the review has returned and every Reviewer call it made failed,
\* agents_failed is the number of requested dimensions (all six when the
\* request names none), agents_run is 0, overall_score is 0.0,
\* overall_severity is "none", and nothing was raised.
AllFailedReport ==
  (pc = "done" /\ AllCallsFailed) =>
    /\ raised = <<>>
    /\ Len(calls) = Cardinality(RequestedDims)
    /\ summary[1].agents_failed = Cardinality(RequestedDims)
    /\ summary[1].agents_run = 0
    /\ summary[1].overall_score = 0
    /\ summary[1].overall_severity = "none"
    /\ summary[1].total_issues = 0

\* a review of a source with a hardcoded secret returned with all of its
\* Reviewer calls failed, for a request naming two dimensions
AllFailedReportWitness ==
  /\ pc = "done"
  /\ AllCallsFailed
  /\ code = SrcSecret
  /\ Cardinality(include_agents.names) = 2

\* C5: in the returned report, scores has exactly the non-skipped dimensions,
\* each under its own score, and overall_score is their arithmetic mean
\* (overall_score times their number is their sum; scores are in half points
\* and overall_score in 1/120 points), 0.0 when there is none.
OverallScoreIsMean ==
  pc = "done" =>
    LET scores == summary[1].scores IN
    /\ DOMAIN scores = Succeeded
    /\ \A d \in Succeeded \ {"syntax"} : scores[d] = agent_results[d].score
    /\ IF Succeeded = {} THEN summary[1].overall_score = 0
       ELSE summary[1].overall_score * Cardinality(Succeeded) =
              60 * SumSeq([k \in 1..Len(DimOrder) |->
                             IF DimOrder[k] \in Succeeded THEN scores[DimOrder[k]] ELSE 0])

\* a report over two failed and four succeeded dimensions whose scores differ
OverallScoreIsMeanWitness ==
  /\ pc = "done"
  /\ Cardinality(Succeeded) = 4
  /\ Cardinality(DOMAIN agent_results) = 6
  /\ \E d, e \in Succeeded : summary[1].scores[d] /= summary[1].scores[e]

\* C6 as stated: overall_severity is critical if a collected finding is at
\* level critical, else high if one is at level high, the level being the
\* finding's severity or impact, else medium if there is a finding, else none.
SeverityFromLevels ==
  pc = "done" =>
    summary[1].overall_severity =
      (IF "critical" \in LevelsCollected THEN "critical"
       ELSE IF "high" \in LevelsCollected THEN "high"
       ELSE IF LevelsCollected /= {} THEN "medium"
       ELSE "none")

\* C7 as stated: each of the four counts is the number of collected findings
\* at that level, and the four counts add up to the number of findings
\* collected from the non-skipped dimensions.
CountsAccountForAll ==
  pc = "done" =>
    /\ summary[1].total_issues = TotalCollected
    /\ summary[1].critical_issues = CountAt("critical")
    /\ summary[1].high_issues = CountAt("high")
    /\ summary[1].medium_issues = CountAt("medium")
    /\ summary[1].low_issues = CountAt("low")
    /\ summary[1].critical_issues + summary[1].high_issues
         + summary[1].medium_issues + summary[1].low_issues = TotalCollected

AllSucceedNoFindings ==
  /\ pc = "done"
  /\ Succeeded = Dims
  /\ \A d \in Dims : FindingsOf(d) = <<>>

\* the cyclomatic complexity the performance dimension scored with
CyclomaticScored ==
  IF agent_results["performance"].complexity_metrics = <<>> THEN 1
  ELSE agent_results["performance"].complexity_metrics[1].cyclomatic

\* C8 as stated: all six dimensions succeeded with zero findings, so every
\* score is 10.0, overall_score is 10.0 and overall_severity is "none".
CleanReportIsPerfect ==
  AllSucceedNoFindings =>
    /\ \A d \in Dims : summary[1].scores[d] = 20
    /\ summary[1].overall_score = 1200
    /\ summary[1].overall_severity = "none"

\* C8, amended: when all six dimensions succeed with zero findings,
\* overall_severity is "none" and every score but the performance score is
\* 10.0; the performance score is 10.0 less the complexity penalty (1.0 above
\* cyclomatic complexity 10, 2.0 above 20), so overall_score is 10.0 exactly
\* when the cyclomatic complexity is at most 10 and the mean of the six
\* scores, below 10.0, otherwise.
CleanReportUpToComplexity ==
  AllSucceedNoFindings =>
    /\ summary[1].overall_severity = "none"
    /\ \A d \in Dims \ {"performance"} : summary[1].scores[d] = 20
    /\ summary[1].scores["performance"] =
         (IF CyclomaticScored > 20 THEN 16 ELSE IF CyclomaticScored > 10 THEN 18 ELSE 20)
    /\ summary[1].overall_score = 200 * 5 + 10 * summary[1].scores["performance"]
    /\ (CyclomaticScored <= 10 <=> summary[1].overall_score = 1200)

\* six clean dimensions over a source of cyclomatic complexity above 10
CleanReportUpToComplexityWitness ==
  /\ AllSucceedNoFindings
  /\ CyclomaticScored > 10
  /\ summary[1].overall_score < 1200

\* C9: every score a dimension's scoring rule returns, for any findings and
\* any complexity or coverage values, is between 0 and 10.0 (20 half points).
ScoreWithinBounds ==
  probe_out /= <<>> => (probe_out[1] >= 0 /\ probe_out[1] <= 20)

\* a score that the floor holds at 0: more than ten points of penalties
ScoreWithinBoundsWitness ==
  /\ probe_out = <<0>>
  /\ probe[1].dim = "style"
  /\ Len(ProbeIssues(probe[1])) > 20

\* the penalty of one finding in half points: 3.0 critical, 2.0 high, 1.0
\* medium, 0.5 low or minor; a style finding marked major is taken at 1.0
LevelPenalty(f) ==
  CASE Level(f) = "critical" -> 6
    [] Level(f) = "high" -> 4
    [] Level(f) \in {"medium", "major"} -> 2
    [] OTHER -> 1

\* the penalties of the stated rule for a dimension's findings and facts
RulePenalty(p) ==
  SumSeq([i \in 1..Len(ProbeIssues(p)) |-> LevelPenalty(ProbeIssues(p)[i])])
  + (IF p.dim = "performance" /\ p.complexity_metrics /= <<>>
     THEN (IF p.complexity_metrics[1].cyclomatic > 20 THEN 4
           ELSE IF p.complexity_metrics[1].cyclomatic > 10 THEN 2 ELSE 0)
          + (IF p.complexity_metrics[1].max_nesting > 4 THEN 3
             ELSE IF p.complexity_metrics[1].max_nesting > 3 THEN 1 ELSE 0)
     ELSE 0)
  + (IF p.dim = "documentation" /\ p.docstring_stats /= <<>>
     THEN (IF p.docstring_stats[1].coverage_percentage.num * 2
                < 100 * p.docstring_stats[1].coverage_percentage.den THEN 6
           ELSE IF p.docstring_stats[1].coverage_percentage.num * 5
                     < 400 * p.docstring_stats[1].coverage_percentage.den THEN 3
           ELSE 0)
     ELSE 0)

\* C10 as stated: the score of each of the six dimensions is
\* max(0, 10.0 - penalties).
ScoreIsTenLessPenalties ==
  probe_out /= <<>> => probe_out[1] = Max2(0, 20 - RulePenalty(probe[1]))

\* C10, amended: the score of security, performance, style, best_practices and
\* documentation is max(0, 10.0 - penalties), a style finding marked major
\* costing 1.0; the syntax score does not depend on the findings: it is 10.0
\* when the source is syntactically valid and 0.0 when it is not.
ScoreIsTenLessPenaltiesButSyntax ==
  probe_out /= <<>> =>
    IF probe[1].dim = "syntax"
    THEN probe_out[1] = (IF probe[1].syntax_valid THEN 20 ELSE 0)
    ELSE probe_out[1] = Max2(0, 20 - RulePenalty(probe[1]))

\* a performance score above the floor made of finding penalties and both
\* complexity penalties
ScoreIsTenLessPenaltiesButSyntaxWitness ==
  /\ probe_out /= <<>>
  /\ probe[1].dim = "performance"
  /\ probe[1].complexity_metrics /= <<>>
  /\ probe[1].complexity_metrics[1].cyclomatic > 20
  /\ probe[1].complexity_metrics[1].max_nesting > 4
  /\ Len(ProbeIssues(probe[1])) >= 3
  /\ probe_out[1] > 0
  /\ probe_out[1] < 20
----------------------------------------------------------------------------
(* The verdict parsers on their own: a dimension and the text of a Reviewer *)
(* answer, parsed with no finding of the dimension's own detector.          *)

MaxLines == 3

\* the findings dimension d's parser makes of the answer analysis_text
ParseVerdict(d, analysis_text) ==
  CASE d = "syntax" -> SyntaxExtractIssues(analysis_text, <<>>)
    [] d = "security" -> ExtractVulnerabilities(analysis_text, <<>>)
    [] d = "performance" -> ExtractPerformanceIssues(analysis_text, <<>>)
    [] d = "style" -> ExtractStyleIssues(analysis_text, <<>>)
    [] d = "best_practices" -> ExtractBestPracticesIssues(analysis_text, <<>>)
    [] d = "documentation" -> ExtractDocumentationIssues(analysis_text, <<>>)

InitVerdict ==
  /\ pc = "parse"
  /\ code = NoSource
  /\ language = ""
  /\ include_agents = [none |-> TRUE, names |-> {}]
  /\ metrics = <<>>
  /\ dependencies = <<>>
  /\ agent_results = NoResults
  /\ summary = <<>>
  /\ raised = <<>>
  /\ calls = <<>>
  /\ \E d \in Dims : \E n \in 1..MaxLines : \E t \in [1..n -> VerdictLines] :
       probe = <<[dim |-> d, text |-> t]>>
  /\ probe_out = <<>>

ParseOf(d) ==
  /\ pc = "parse"
  /\ probe_out = <<>>
  /\ probe[1].dim = d
  /\ probe_out' = <<ParseVerdict(d, probe[1].text)>>
  /\ UNCHANGED probe
  /\ UNCHANGED reviewVars

ParseSyntax == ParseOf("syntax")

ParseSecurity == ParseOf("security")

ParsePerformance == ParseOf("performance")

ParseStyle == ParseOf("style")

ParseBestPractices == ParseOf("best_practices")

ParseDocumentation == ParseOf("documentation")

NextVerdict ==
  \/ ParseSyntax
  \/ ParseSecurity
  \/ ParsePerformance
  \/ ParseStyle
  \/ ParseBestPractices
  \/ ParseDocumentation

SpecVerdict == InitVerdict /\ [][NextVerdict]_vars

----------------------------------------------------------------------------
(* Properties of the verdict parsers (SpecVerdict) *)

\* the answer being parsed and, once parsed, the findings made of it
VerdictDim == probe[1].dim

VerdictText == probe[1].text

Parsed == probe_out /= <<>>

ParsedFindings == probe_out[1]

\* line i of the answer starts a finding of dimension d
IsTrigger(d, l) ==
  CASE d = "syntax" -> HasAny(l, SyntaxTriggers)
    [] d = "security" -> HasAny(l, SecurityTriggers)
    [] d = "performance" -> HasAny(l, PerformanceTriggers)
    [] d = "style" -> HasAny(l, StyleTriggers)
    [] d = "best_practices" -> HasAny(l, BestPracticesTriggers)
    [] d = "documentation" -> HasAny(l, DocumentationTriggers)

\* a header line, then "line 12", then a line of context
HeaderLine12Context ==
  /\ pc = "parse" /\ Parsed
  /\ VerdictDim = "security"
  /\ Len(VerdictText) = 3
  /\ VerdictText[2].text = "line 12"
  /\ VerdictText[3].text = "more context"

OneCriticalAtLine12 ==
  /\ Len(ParsedFindings) = 1
  /\ ParsedFindings[1].severity = <<"critical">>
  /\ ParsedFindings[1].line = <<12>>

\* C11 as stated: the security answer "CRITICAL: issue found" / "line 12" /
\* "more context" is parsed into exactly one finding, of severity critical and
\* line 12
PlainHeaderOneCritical ==
  (HeaderLine12Context /\ VerdictText[1].text = "CRITICAL: issue found")
    => OneCriticalAtLine12

\* C11: a security answer of a header line naming a security keyword and
\* "critical", then "line 12", then "more context", is parsed into exactly one
\* finding, of severity critical and line 12; with a header that names no
\* security keyword, such as "CRITICAL: issue found", it is parsed into none
KeywordHeaderOneCritical ==
  HeaderLine12Context =>
    IF IsTrigger("security", VerdictText[1])
    THEN Has(VerdictText[1], "critical") => OneCriticalAtLine12
    ELSE ParsedFindings = <<>>

KeywordHeaderOneCriticalWitness ==
  /\ HeaderLine12Context
  /\ VerdictText[1].text = "CRITICAL: security issue found"
  /\ OneCriticalAtLine12

\* the positions of the lines of the answer that start a finding
TriggerPositions ==
  SelectSeq([i \in 1..Len(VerdictText) |-> i],
            LAMBDA i : IsTrigger(VerdictDim, VerdictText[i]))

\* the lines that follow the k-th trigger line, up to the next trigger line
FollowersOf(k) ==
  LET trig == TriggerPositions
      last == IF k < Len(trig) THEN trig[k + 1] - 1 ELSE Len(VerdictText)
  IN SubSeq(VerdictText, trig[k] + 1, last)

\* the numbers N of the "line N" lines among the followers, in order
LineNumbersAfter(k) ==
  LET numbered == SelectSeq(FollowersOf(k), LAMBDA l : l.num /= <<>>)
  IN [i \in 1..Len(numbered) |-> numbered[i].num[1]]

OneFindingPerTrigger == Len(ParsedFindings) = Len(TriggerPositions)

PrecedenceLevel(l) ==
  IF Has(l, "critical") THEN "critical"
  ELSE IF Has(l, "high") THEN "high"
  ELSE IF Has(l, "medium") THEN "medium"
  ELSE IF Has(l, "low") THEN "low"
  ELSE "medium"

\* the level each dimension's parser gives a trigger line
DimensionLevel(d, l) ==
  CASE d = "syntax" -> IF Has(l, "error") THEN "high" ELSE "medium"
    [] d = "security" ->
         IF Has(l, "critical") THEN "critical"
         ELSE IF Has(l, "high") THEN "high"
         ELSE IF Has(l, "low") THEN "low"
         ELSE "medium"
    [] d = "performance" ->
         IF Has(l, "high") \/ Has(l, "critical") THEN "high"
         ELSE IF Has(l, "low") \/ Has(l, "minor") THEN "low"
         ELSE "medium"
    [] d = "style" ->
         IF Has(l, "major") \/ Has(l, "critical") THEN "major" ELSE "minor"
    [] d = "best_practices" -> "medium"
    [] d = "documentation" ->
         IF Has(l, "missing") \/ Has(l, "critical") THEN "high"
         ELSE IF Has(l, "minor") \/ Has(l, "suggestion") THEN "low"
         ELSE "medium"

\* C20 as stated: the severity of a parsed finding is read off its trigger line
\* alone, by the precedence critical > high > medium > low, medium when the
\* line names none of them
SeverityByPrecedence ==
  (pc = "parse" /\ Parsed) =>
    /\ OneFindingPerTrigger
    /\ \A k \in 1..Len(ParsedFindings) :
         Level(ParsedFindings[k]) = PrecedenceLevel(VerdictText[TriggerPositions[k]])

\* C20: the severity of a parsed finding is read off its trigger line alone, by
\* the rule of its dimension (first match wins): security critical > high > low,
\* else medium, so that a line naming "medium" and "low" yields low;
\* documentation high for "missing" or "critical", low for "minor" or
\* "suggestion", else medium; performance (impact) high for "high" or
\* "critical", low for "low" or "minor", else medium; style major for "major" or
\* "critical", else minor; syntax high for "error", else medium; best practices
\* always medium
SeverityByDimensionRule ==
  (pc = "parse" /\ Parsed) =>
    /\ OneFindingPerTrigger
    /\ \A k \in 1..Len(ParsedFindings) :
         Level(ParsedFindings[k]) = DimensionLevel(VerdictDim, VerdictText[TriggerPositions[k]])

SeverityByDimensionRuleWitness ==
  /\ pc = "parse" /\ Parsed
  /\ VerdictDim = "security"
  /\ Len(ParsedFindings) = 1
  /\ Has(VerdictText[1], "medium") /\ Has(VerdictText[1], "low")
  /\ Len(VerdictText) > 1
  /\ ParsedFindings[1].severity = <<"low">>

\* C21: the parser returns exactly one finding per trigger line of the answer,
\* in the order of those lines, each opening with its trigger line's text: the
\* pending finding is flushed by the next trigger line and at the end of the
\* text, lines before the first trigger line make nothing, and an answer with
\* no trigger line yields no finding
OneFindingPerTriggerLine ==
  (pc = "parse" /\ Parsed) =>
    /\ Len(ParsedFindings) = Len(TriggerPositions)
    /\ \A k \in 1..Len(ParsedFindings) :
         Head(ParsedFindings[k].message) = VerdictText[TriggerPositions[k]].text
    /\ (\A i \in 1..Len(VerdictText) : ~IsTrigger(VerdictDim, VerdictText[i]))
         => ParsedFindings = <<>>

OneFindingPerTriggerLineWitness ==
  /\ pc = "parse" /\ Parsed
  /\ VerdictDim \in {"syntax", "security", "best_practices"}
  /\ TriggerPositions = <<2, 3>>
  /\ Len(ParsedFindings) = 2
  /\ ParsedFindings[1].message /= ParsedFindings[2].message

----------------------------------------------------------------------------
(* One dimension's review() on its own: a source, a language and what the   *)
(* Reviewer does with the one call.                                         *)

AgentSources == Sources \cup {SrcDeep4, SrcSecrets6, SrcRandom, SrcNegate, SrcNames}

Languages == {"python", "Python", "javascript"}

\* the Reviewer fails, or answers with a sample answer or one line
AgentOutcomes(d) ==
  Outcomes(d) \cup {[ok |-> TRUE, err |-> "", text |-> <<l>>] : l \in VerdictLines}

InitAgent ==
  /\ pc = "agent"
  /\ \E s \in AgentSources : code = s
  /\ \E lang \in Languages : language = lang
  /\ include_agents = [none |-> TRUE, names |-> {}]
  /\ metrics = <<>>
  /\ dependencies = <<>>
  /\ agent_results = NoResults
  /\ summary = <<>>
  /\ raised = <<>>
  /\ calls = <<>>
  /\ \E d \in Dims : \E o \in AgentOutcomes(d) : probe = <<[dim |-> d, outcome |-> o]>>
  /\ probe_out = <<>>

\* agent.review(code, language) of dimension d inside its try block
AgentReview(d) ==
  /\ pc = "agent"
  /\ probe_out = <<>>
  /\ probe[1].dim = d
  /\ probe_out' = <<TryReview(ReviewOf(d, code, language, probe[1].outcome))>>
  /\ UNCHANGED probe
  /\ UNCHANGED reviewVars

ReviewSyntax == AgentReview("syntax")

ReviewSecurity == AgentReview("security")

ReviewPerformance == AgentReview("performance")

ReviewStyle == AgentReview("style")

ReviewBestPractices == AgentReview("best_practices")

ReviewDocumentation == AgentReview("documentation")

NextAgent ==
  \/ ReviewSyntax
  \/ ReviewSecurity
  \/ ReviewPerformance
  \/ ReviewStyle
  \/ ReviewBestPractices
  \/ ReviewDocumentation

SpecAgent == InitAgent /\ [][NextAgent]_vars

----------------------------------------------------------------------------
(* Properties of one dimension's review (SpecAgent) *)

ReviewedDim == probe[1].dim

Reviewed == pc = "agent" /\ probe_out /= <<>>

ReviewOut == probe_out[1]

\* the review of dimension d has returned a result of its own
ReviewSucceeded(d) == Reviewed /\ ReviewedDim = d /\ ~ReviewOut.skipped

\* the findings of the reviewed dimension
ReviewFindings == ReviewOut.issues \o ReviewOut.vulnerabilities

SecretTokens ==
  {"password", "secret", "api_key", "apikey", "token", "credential",
   "aws_access_key", "private_key", "passwd", "pwd"}

\* the numbers of the source lines that contain the token
TokenLines(tok) == {i \in 1..Len(code.lines) : Has(code.lines[i], tok)}

\* the first five of them
FirstFive(S) == {i \in S : Cardinality({j \in S : j < i}) < 5}

IsSecretFinding(f) == f.type = "hardcoded_secrets" /\ f.severity = <<"critical">>

LinesListed(f) == {f.lines[k] : k \in 1..Len(f.lines)}

\* C12 as stated: when the security dimension succeeds, every source line that
\* contains a hardcoded-secret token is referenced by a critical
\* hardcoded-secret finding among the security findings
EverySecretLineReferenced ==
  ReviewSucceeded("security") =>
    \A tok \in SecretTokens : \A i \in TokenLines(tok) :
      \E k \in 1..Len(ReviewFindings) :
        IsSecretFinding(ReviewFindings[k]) /\ i \in LinesListed(ReviewFindings[k])

\* C12: when the security dimension succeeds, the security findings hold for
\* every hardcoded-secret token that some source line contains a critical
\* hardcoded-secret finding that lists the numbers of the first five lines
\* containing that token, and no critical hardcoded-secret finding lists
\* anything else: a line is referenced when it is among the first five lines
\* containing one of its tokens
FirstFiveSecretLinesReferenced ==
  ReviewSucceeded("security") =>
    /\ \A tok \in SecretTokens :
         TokenLines(tok) /= {} =>
           \E k \in 1..Len(ReviewFindings) :
             /\ IsSecretFinding(ReviewFindings[k])
             /\ LinesListed(ReviewFindings[k]) = FirstFive(TokenLines(tok))
    /\ \A k \in 1..Len(ReviewFindings) :
         IsSecretFinding(ReviewFindings[k]) =>
           \E tok \in SecretTokens :
             /\ TokenLines(tok) /= {}
             /\ LinesListed(ReviewFindings[k]) = FirstFive(TokenLines(tok))

FirstFiveSecretLinesReferencedWitness ==
  /\ ReviewSucceeded("security")
  /\ Cardinality(TokenLines("password")) = 6
  /\ \E k \in 1..Len(ReviewFindings) :
       /\ IsSecretFinding(ReviewFindings[k])
       /\ ReviewFindings[k].lines = <<1, 2, 3, 4, 5>>
  /\ \E k \in 1..Len(ReviewFindings) :
       /\ IsSecretFinding(ReviewFindings[k])
       /\ ReviewFindings[k].lines = <<7>>

\* the largest number of conditionals nested in one another in the tree
RECURSIVE ConditionalDepth(_)
ConditionalDepth(node) ==
  LET below == {ConditionalDepth(node.children[i]) : i \in 1..Len(node.children)}
      deepest == IF below = {} THEN 0 ELSE CHOOSE x \in below : \A y \in below : y <= x
  IN deepest + (IF node.kind = "If" THEN 1 ELSE 0)

\* the source is Python that parses and nests at least n conditionals
NestsConditionals(n) ==
  /\ Lower(language) = "python"
  /\ code.parse.ok
  /\ ConditionalDepth(code.parse.tree) >= n

IsHighNesting(f) == f.type = "high_nesting" /\ f.impact = <<"high">>

HighNestingFlagged ==
  \E k \in 1..Len(ReviewOut.issues) : IsHighNesting(ReviewOut.issues[k])

\* C13: when the performance dimension succeeds, a source with four nested
\* conditionals has a reported max_nesting of at least 4 and a high-impact
\* high-nesting finding among the performance findings; for every source the
\* finding is there exactly when a max_nesting above 3 is reported
HighNestingWhenAboveThree ==
  ReviewSucceeded("performance") =>
    /\ NestsConditionals(4) =>
         /\ ReviewOut.complexity_metrics /= <<>>
         /\ ReviewOut.complexity_metrics[1].max_nesting >= 4
         /\ HighNestingFlagged
    /\ HighNestingFlagged <=>
         /\ ReviewOut.complexity_metrics /= <<>>
         /\ ReviewOut.complexity_metrics[1].max_nesting > 3

HighNestingWhenAboveThreeWitness ==
  /\ ReviewSucceeded("performance")
  /\ NestsConditionals(4)
  /\ ~NestsConditionals(5)
  /\ HighNestingFlagged

\* what identifies a finding: its type, its level and the lines it names
Shape(type, level, line, lines) ==
  [type |-> type, level |-> level, line |-> line, lines |-> lines]

ShapesOf(findings) ==
  [k \in 1..Len(findings) |->
     Shape(findings[k].type, Level(findings[k]), findings[k].line, findings[k].lines)]

\* the structural facts the detectors of the reviewed source read
SourceAst == IF Lower(language) = "python" THEN <<AstParse(code, language)>> ELSE <<>>

SourceComplexity ==
  IF SourceAst /= <<>> /\ SourceAst[1].valid THEN SourceAst[1].complexity ELSE <<>>

SourceDocstrings ==
  IF SourceAst /= <<>> /\ SourceAst[1].valid
  THEN <<AnalyzeDocstrings(SourceAst[1])>> ELSE <<>>

\* the security detector's matches, as findings
SecurityDetected ==
  LET pattern_matches == CheckSecurityPatterns(code, language)
  IN [k \in 1..Len(pattern_matches) |->
        Shape(pattern_matches[k].type, pattern_matches[k].severity, <<>>,
              pattern_matches[k].lines)]

\* the findings of dimension d's own detector on the reviewed source, in the
\* detector's order (an anti-pattern has no level of its own: the finding made
\* of it is medium)
Detected(d) ==
  CASE d = "syntax" ->
         IF SourceAst /= <<>> /\ ~SourceAst[1].valid
         THEN <<Shape("syntax_error", "critical", SourceAst[1].line, <<>>)>>
         ELSE <<>>
    [] d = "security" -> SecurityDetected
    [] d = "performance" ->
         ShapesOf(IdentifyPerformancePatterns(code, language, SourceComplexity))
    [] d = "style" -> ShapesOf(CheckStylePatterns(code, language))
    [] d = "best_practices" ->
         LET anti_patterns == IdentifyAntiPatterns(code, language, SourceAst)
         IN [k \in 1..Len(anti_patterns) |->
               Shape(anti_patterns[k].type, "medium", anti_patterns[k].line, <<>>)]
    [] d = "documentation" ->
         ShapesOf(CheckDocumentationPatterns(code, language, SourceDocstrings))

\* the findings parsed from the Reviewer's answer alone
ParsedFromAnswer == ShapesOf(ParseVerdict(ReviewedDim, probe[1].outcome.text))

\* C18 as stated: when a dimension succeeds its findings are every finding of
\* its detector, of any severity, followed by the findings parsed from the
\* Reviewer's answer in the answer's order
DetectedThenParsed ==
  (Reviewed /\ ~ReviewOut.skipped) =>
    ShapesOf(ReviewFindings) = Detected(ReviewedDim) \o ParsedFromAnswer

\* C18: when a dimension succeeds its findings are the findings of its detector
\* in the detector's order, followed by the findings parsed from the Reviewer's
\* answer in the answer's order; for security only the detector's critical and
\* high matches are among them: its medium matches are left out
KeptDetectedThenParsed ==
  (Reviewed /\ ~ReviewOut.skipped) =>
    ShapesOf(ReviewFindings) =
      (IF ReviewedDim = "security"
       THEN SelectSeq(SecurityDetected, LAMBDA f : f.level \in {"critical", "high"})
       ELSE Detected(ReviewedDim))
      \o ParsedFromAnswer

KeptDetectedThenParsedWitness ==
  /\ ReviewSucceeded("security")
  /\ \E k \in 1..Len(SecurityDetected) : SecurityDetected[k].level = "medium"
  /\ \E k \in 1..Len(SecurityDetected) : SecurityDetected[k].level = "critical"
  /\ ParsedFromAnswer /= <<>>
  /\ Len(ReviewFindings) < Len(SecurityDetected) + Len(ParsedFromAnswer)
  /\ ReviewFindings[1].type = "hardcoded_secrets"

IsSyntaxError(f) == f.type = "syntax_error" /\ f.severity = <<"critical">>

\* the critical syntax findings of the reviewed dimension
SyntaxErrors == SelectSeq(ReviewOut.issues, LAMBDA f : IsSyntaxError(f))

\* C22 as stated: when the syntax dimension succeeds it holds the critical
\* syntax finding exactly when the structural profile of the source and
\* language is invalid, be it a parse failure or an unsupported language
SyntaxErrorIffProfileInvalid ==
  ReviewSucceeded("syntax") =>
    (SyntaxErrors /= <<>> <=> ~AstParse(code, language).valid)

\* C22: when the syntax dimension succeeds it holds the critical syntax finding
\* exactly when the language is the supported one and the source fails to
\* parse, once, first in the findings and with the parser's line and message,
\* and syntax_valid is false exactly then; for another language the parser is
\* not asked: no such finding, syntax_valid true. The review of an unparseable
\* source fails only when its Reviewer call fails
SyntaxErrorIffParseFails ==
  (Reviewed /\ ReviewedDim = "syntax") =>
    /\ ReviewOut.skipped <=> ~probe[1].outcome.ok
    /\ ~ReviewOut.skipped =>
         LET fails == Lower(language) = "python" /\ ~code.parse.ok IN
         /\ SyntaxErrors /= <<>> <=> fails
         /\ ReviewOut.syntax_valid <=> ~fails
         /\ fails =>
              /\ Len(SyntaxErrors) = 1
              /\ IsSyntaxError(ReviewOut.issues[1])
              /\ ReviewOut.issues[1].line = code.parse.errline
              /\ ReviewOut.issues[1].message = <<code.parse.error>>

SyntaxErrorIffParseFailsWitness ==
  /\ ReviewSucceeded("syntax")
  /\ Lower(language) = "python"
  /\ ~code.parse.ok
  /\ IsSyntaxError(ReviewOut.issues[1])
  /\ ReviewOut.issues[1].line = <<1>>
  /\ Len(ReviewOut.issues) > 1

IsNamingFinding(f) == f.type = "naming_convention" /\ f.severity = <<"minor">>

\* the numbers of the lines of the source that define a function
DefLines == {i \in 1..Len(code.lines) : code.lines[i].def /= <<>>}

NamingFlagged(i) ==
  \E k \in 1..Len(ReviewOut.issues) :
    IsNamingFinding(ReviewOut.issues[k]) /\ ReviewOut.issues[k].line = <<i>>

\* C26: for the supported language the style dimension holds a minor naming
\* finding for every function definition whose name is not lower-case and
\* underscore-separated, and for no function whose name is
NamingFindingIffNotSnakeCase ==
  (ReviewSucceeded("style") /\ Lower(language) = "python") =>
    \A i \in DefLines : NamingFlagged(i) <=> ~code.lines[i].def[1].snake

\* the reviewed source parses and defines no function and no class
DefinesNothing ==
  /\ code.parse.ok
  /\ \A i \in 1..Len(Walk(code.parse.tree)) :
       Walk(code.parse.tree)[i].kind \notin {"FunctionDef", "ClassDef"}

\* C30: for a source of the supported language that parses and defines no
\* function and no class, the documentation dimension, when its Reviewer call
\* succeeds, reports coverage 0.0, holds the high low-coverage finding and has
\* a score of at most 5.0, whatever the answer
NothingDefinedScoresAtMostFive ==
  (ReviewSucceeded("documentation") /\ Lower(language) = "python" /\ DefinesNothing) =>
    /\ ReviewOut.docstring_stats /= <<>>
    /\ ReviewOut.docstring_stats[1].coverage_percentage = Percent(0, 1)
    /\ \E k \in 1..Len(ReviewOut.issues) :
         /\ ReviewOut.issues[k].type = "low_docstring_coverage"
         /\ ReviewOut.issues[k].severity = <<"high">>
    /\ ReviewOut.score_key = "documentation_score"
    /\ ReviewOut.score <= 10

NothingDefinedScoresAtMostFiveWitness ==
  /\ ReviewSucceeded("documentation")
  /\ Lower(language) = "python"
  /\ DefinesNothing
  /\ Len(code.lines) > 0
  /\ Len(probe[1].outcome.text) = 1
  /\ ReviewOut.score = 10

----------------------------------------------------------------------------
(* The docstring statistics on their own: a parsed Python module of some    *)
(* functions and classes, with and without docstrings.                      *)

DefNode(kind, doc, children) ==
  [kind |-> kind, name |-> "d", doc |-> doc, line |-> 1, children |-> children]

\* a module of p.f_text functions with a docstring, p.f_empty with an empty one
\* and p.f_none without, and of p.c_text classes with a docstring and p.c_none
\* without, each class holding p.methods documented methods
ProbeTree(p) ==
  LET methods == Repeat(DefNode("FunctionDef", "text", <<>>), p.methods)
  IN [kind |-> "Module", name |-> "", doc |-> "none", line |-> 0,
      children |->
        Repeat(DefNode("FunctionDef", "text", <<>>), p.f_text)
        \o Repeat(DefNode("ClassDef", "text", methods), p.c_text)
        \o Repeat(DefNode("FunctionDef", "empty", <<>>), p.f_empty)
        \o Repeat(DefNode("ClassDef", "none", methods), p.c_none)
        \o Repeat(DefNode("FunctionDef", "none", <<>>), p.f_none)]

ProbeSource(p) ==
  [name |-> "probe", lines |-> <<>>,
   parse |-> [ok |-> TRUE, errline |-> <<>>, error |-> "", tree |-> ProbeTree(p)]]

InitDocs ==
  /\ pc = "docs"
  /\ code = NoSource
  /\ language = "python"
  /\ include_agents = [none |-> TRUE, names |-> {}]
  /\ metrics = <<>>
  /\ dependencies = <<>>
  /\ agent_results = NoResults
  /\ summary = <<>>
  /\ raised = <<>>
  /\ calls = <<>>
  /\ \E ft \in 0..MaxItems, fn \in 0..MaxItems, ct \in 0..MaxItems, cn \in 0..MaxItems :
       \E fe \in 0..1, me \in 0..1 :
         probe = <<[f_text |-> ft, f_empty |-> fe, f_none |-> fn,
                    c_text |-> ct, c_none |-> cn, methods |-> me]>>
  /\ probe_out = <<>>

\* _analyze_docstrings on the parse of the module
AnalyzeProbe ==
  /\ pc = "docs"
  /\ probe_out = <<>>
  /\ probe_out' = <<AnalyzeDocstrings(AstParse(ProbeSource(probe[1]), language))>>
  /\ UNCHANGED probe
  /\ UNCHANGED reviewVars

\* _check_documentation_patterns on the statistics, over a text without
\* comments or over the text of SrcMessy, which holds a bare TODO
CheckProbe ==
  /\ pc = "docs"
  /\ Len(probe_out) = 1
  /\ \E lines \in {<<>>, SrcMessy.lines} :
       probe_out' = probe_out \o
         <<CheckDocumentationPatterns([ProbeSource(probe[1]) EXCEPT !.lines = lines],
                                      language, <<probe_out[1]>>)>>
  /\ UNCHANGED probe
  /\ UNCHANGED reviewVars

NextDocs == AnalyzeProbe \/ CheckProbe

SpecDocs == InitDocs /\ [][NextDocs]_vars

----------------------------------------------------------------------------
(* Properties of the docstring statistics (SpecDocs) *)

Analyzed == pc = "docs" /\ probe_out /= <<>>

DocStats == probe_out[1]

\* the functions and classes of the module
ProbeFunctions ==
  probe[1].f_text + probe[1].f_empty + probe[1].f_none
  + probe[1].methods * (probe[1].c_text + probe[1].c_none)

ProbeClasses == probe[1].c_text + probe[1].c_none

\* C14: the documentation coverage is a percentage between 0.0 and 100.0, and
\* it is exactly 0.0 when the module has no function and no class
CoverageWithinRange ==
  Analyzed =>
    LET coverage == DocStats.coverage_percentage IN
    /\ DocStats.total_functions = ProbeFunctions
    /\ DocStats.total_classes = ProbeClasses
    /\ coverage.den > 0
    /\ 0 <= coverage.num
    /\ coverage.num <= 100 * coverage.den
    /\ (DocStats.total_functions + DocStats.total_classes = 0) => coverage.num = 0

CoverageWithinRangeWitness ==
  /\ Analyzed
  /\ DocStats.total_functions + DocStats.total_classes = 0
  /\ DocStats.coverage_percentage.num = 0


\* the findings of the detector on the statistics
Checked == pc = "docs" /\ Len(probe_out) = 2

DocIssues == probe_out[2]

IsCoverageFinding(f) ==
  f.type \in {"low_docstring_coverage", "moderate_docstring_coverage"}

CoverageFindings == SelectSeq(DocIssues, LAMBDA f : IsCoverageFinding(f))

\* C25: the documentation detector emits one coverage finding when the
\* coverage is below 80% and none otherwise: of high severity below 50%, of
\* medium severity from 50% up to 80%
OneCoverageFindingBelow80 ==
  Checked =>
    LET coverage == DocStats.coverage_percentage IN
    /\ Len(CoverageFindings) = (IF PercentBelow(coverage, 80) THEN 1 ELSE 0)
    /\ PercentBelow(coverage, 50) =>
         /\ CoverageFindings[1].type = "low_docstring_coverage"
         /\ CoverageFindings[1].severity = <<"high">>
    /\ (~PercentBelow(coverage, 50) /\ PercentBelow(coverage, 80)) =>
         /\ CoverageFindings[1].type = "moderate_docstring_coverage"
         /\ CoverageFindings[1].severity = <<"medium">>

OneCoverageFindingBelow80Witness ==
  /\ Checked
  /\ DocStats.coverage_percentage = Percent(100, 2)
  /\ Len(DocIssues) = 2
  /\ DocIssues[1].severity = <<"medium">>
  /\ DocIssues[2].type = "vague_todo"

----------------------------------------------------------------------------
(* Properties of a review (Spec): which dimensions run *)

\* the dimensions include_agents names: all six when it is absent
NamedDims == IF include_agents.none THEN Dims ELSE include_agents.names

\* C15 as stated: the Reviewer is called exactly once for each dimension that
\* include_agents names (all six when it is absent) and for no other dimension,
\* whatever include_agents is, the empty list included
ReviewerOncePerNamed ==
  pc = "done" =>
    \A d \in Dims : Len(CallsOf(d)) = IF d \in NamedDims THEN 1 ELSE 0


\* C27: building the summary leaves every dimension result and every finding
\* in it as the dimension produced it
SummaryLeavesResultsUnchanged ==
  [][pc = "summary" => agent_results' = agent_results]_vars

\* the entries of the report that are the skipped result carrying an error
SkippedWithError ==
  {d \in DOMAIN agent_results :
     agent_results[d].skipped /\ Truthy(agent_results[d].error)}

\* C28: in a returned report every entry is counted once, as run or as failed:
\* agents_run + agents_failed is the number of entries, the failed ones are
\* the skipped results carrying an error, and no entry is skipped without an
\* error or carries an error without being skipped
EveryEntryRunOrFailed ==
  (pc = "done" /\ summary /= <<>>) =>
    /\ summary[1].agents_run + summary[1].agents_failed = Cardinality(DOMAIN agent_results)
    /\ summary[1].agents_failed = Cardinality(SkippedWithError)
    /\ summary[1].agents_run = Cardinality(DOMAIN agent_results \ SkippedWithError)
    /\ \A d \in DOMAIN agent_results :
         agent_results[d].skipped <=> Truthy(agent_results[d].error)

EveryEntryRunOrFailedWitness ==
  /\ pc = "done"
  /\ summary /= <<>>
  /\ summary[1].agents_failed = 2
  /\ summary[1].agents_run = 4
  /\ agent_results["security"].skipped
  /\ agent_results["style"].skipped

----------------------------------------------------------------------------
(* The summary on its own: the results of some dimensions, and the order in *)
(* which agent_results yields them.                                         *)

MaxCollected == 4

\* the orders in which the entries of the dimensions S can be yielded
Orders(S) ==
  {s \in [1..Cardinality(S) -> S] : \A i, j \in 1..Cardinality(S) : i /= j => s[i] /= s[j]}

OrderSources == {SrcMessy, SrcBroken}

\* the entry of dimension d for the source when its Reviewer call answers or fails
EntryOf(d, src, answers) ==
  TryReview(ReviewOf(d, src, "python",
                     IF answers THEN [ok |-> TRUE, err |-> "", text |-> MockVerdict(d)]
                     ELSE [ok |-> FALSE, err |-> "rate limit", text |-> <<>>]))

InitOrder ==
  /\ pc = "summary"
  /\ \E s \in OrderSources : code = s
  /\ language = "python"
  /\ \E S \in SUBSET Dims :
       /\ Cardinality(S) <= MaxCollected
       /\ include_agents = [none |-> FALSE, names |-> S]
       /\ \E answers \in [S -> BOOLEAN] :
            agent_results = [d \in S |-> EntryOf(d, code, answers[d])]
       /\ \E keys \in Orders(S) : probe = <<keys>>
  /\ metrics = <<>>
  /\ dependencies = <<>>
  /\ summary = <<>>
  /\ raised = <<>>
  /\ calls = <<>>
  /\ probe_out = <<>>

\* _generate_summary over the entries in the order probe[1]; probe_out keeps
\* the entries as they were handed in
SummarizeInOrder ==
  /\ pc = "summary"
  /\ summary' = <<GenerateSummaryIn(agent_results, probe[1])>>
  /\ agent_results' = TagResults(agent_results)
  /\ probe_out' = <<agent_results>>
  /\ pc' = "done"
  /\ UNCHANGED <<code, language, include_agents, metrics, dependencies, raised, calls, probe>>

NextOrder == SummarizeInOrder

SpecOrder == InitOrder /\ [][NextOrder]_vars

----------------------------------------------------------------------------
(* Properties of the summary (SpecOrder) *)

Summarized == pc = "done" /\ summary /= <<>> /\ probe_out /= <<>>

\* the order review() itself produces
BlockOrder == Keys(probe_out[1])

\* C16: the summary and the entries keyed by dimension name are the same
\* whatever the order in which the entries are collected: every order gives
\* what the order of review()'s six blocks gives
SummaryOrderIndependent ==
  Summarized =>
    /\ summary[1] = GenerateSummaryIn(probe_out[1], BlockOrder)
    /\ DOMAIN agent_results = DOMAIN probe_out[1]
    /\ \A d \in DOMAIN agent_results :
         agent_results[d] = TagResults(probe_out[1])[d]

SummaryOrderIndependentWitness ==
  /\ Summarized
  /\ probe[1] /= BlockOrder
  /\ Len(probe[1]) >= 3
  /\ summary[1].overall_severity = "critical"
  /\ summary[1].agents_failed >= 1
  /\ summary[1].agents_run >= 2
  /\ IssuesOf(probe_out[1][probe[1][1]]) /= <<>>
  /\ Opt(IssuesOf(probe_out[1][probe[1][1]])[1].severity, "medium") /= "critical"

----------------------------------------------------------------------------
(* A review whose caller gives up while a Reviewer call is outstanding.     *)

\* the caller's interrupt (KeyboardInterrupt, a BaseException) arrives inside
\* chain.invoke of the block in progress: neither `except Exception` of _invoke
\* nor that of the block catches it, review() is left without a return value
\* and its local results are gone with its frame
Cancel ==
  /\ pc \in Dims
  /\ Selected(include_agents, pc)
  /\ pc' = "cancelled"
  /\ raised' = <<"KeyboardInterrupt">>
  /\ agent_results' = NoResults
  /\ UNCHANGED <<code, language, include_agents, metrics, dependencies, summary, calls>>
  /\ UNCHANGED probeVars

NextCancel ==
  \/ Next
  \/ Cancel

SpecCancel == Init /\ [][NextCancel]_vars

\* the dimensions whose Reviewer call had completed
CompletedDims == {calls[i].dim : i \in 1..Len(calls)}

\* C17 as stated: when the review is cancelled while a Reviewer call is
\* outstanding, the dimensions that had completed are surfaced in a partial
\* report: there is a summary, and an entry for each of them
CancelSurfacesCompleted ==
  pc = "cancelled" =>
    /\ summary /= <<>>
    /\ CompletedDims \subseteq DOMAIN agent_results

----------------------------------------------------------------------------
(* The complexity metrics on their own: a module node over every forest of  *)
(* up to MaxNodes nodes.                                                    *)

MaxNodes == 3

\* the five kinds _calculate_complexity counts, a plain statement and a kind
\* it does not count
TreeKinds == DecisionKinds \cup {"Expr", "AsyncWith"}

TreeNode(kind, children) ==
  [kind |-> kind, name |-> "", doc |-> "none", line |-> 0, children |-> children]

\* the sequences of trees of n nodes together
RECURSIVE Forests(_)
Forests(n) ==
  IF n = 0 THEN {<<>>}
  ELSE UNION {UNION {{<<TreeNode(k, under)>> \o after :
                        under \in Forests(j), after \in Forests(n - 1 - j)} :
                     j \in 0..(n - 1)} :
              k \in TreeKinds}

InitTree ==
  /\ pc = "profile"
  /\ code = NoSource
  /\ language = "python"
  /\ include_agents = [none |-> TRUE, names |-> {}]
  /\ metrics = <<>>
  /\ dependencies = <<>>
  /\ agent_results = NoResults
  /\ summary = <<>>
  /\ raised = <<>>
  /\ calls = <<>>
  /\ \E n \in 0..MaxNodes : \E f \in Forests(n) : probe = <<TreeNode("Module", f)>>
  /\ probe_out = <<>>

\* _calculate_complexity on the tree
ProfileTree ==
  /\ pc = "profile"
  /\ probe_out = <<>>
  /\ probe_out' = <<CalculateComplexity(probe[1])>>
  /\ UNCHANGED probe
  /\ UNCHANGED reviewVars

NextTree == ProfileTree

SpecTree == InitTree /\ [][NextTree]_vars

----------------------------------------------------------------------------
(* Properties of the complexity metrics (SpecTree) *)

Profiled == pc = "profile" /\ probe_out /= <<>>

Profile == probe_out[1]

\* the number of nodes of a decision kind, each node of the tree looked at once
DecisionNodes(tree) ==
  Len(SelectSeq(Walk(tree), LAMBDA n : n.kind \in DecisionKinds))

\* the tree with the children of every node in the opposite order
RECURSIVE Mirror(_)
Mirror(tree) ==
  [tree EXCEPT !.children =
     [i \in 1..Len(tree.children) |-> Mirror(tree.children[Len(tree.children) + 1 - i])]]

\* the depth of the deepest node: 0 for a node without children
RECURSIVE Height(_)
Height(tree) ==
  IF tree.children = <<>> THEN 0
  ELSE LET below == {Height(tree.children[i]) : i \in 1..Len(tree.children)}
       IN 1 + CHOOSE h \in below : \A g \in below : g <= h

MaxNestingIsTreeDepth ==
  Profiled =>
    /\ Profile.max_nesting = Height(probe[1])
    /\ Profile.max_nesting = 0 <=> probe[1].children = <<>>

MaxNestingIsTreeDepthWitness ==
  /\ Profiled
  /\ Len(probe[1].children) = 2
  /\ probe[1].children[1].kind = "Expr"
  /\ probe[1].children[1].children = <<>>
  /\ probe[1].children[2].kind = "Expr"
  /\ Len(probe[1].children[2].children) = 1
  /\ probe[1].children[2].children[1].kind = "Expr"
  /\ Profile.max_nesting = 2

----------------------------------------------------------------------------
(* review() with each Reviewer call begun and ended in separate steps: the  *)
(* call in flight is held in probe.                                         *)

SeqRequests ==
  {[src |-> s, lang |-> "python"] : s \in {SrcEmpty, SrcSecret, SrcBroken}}

\* a variant with the style block before the performance block
Following_stylefirst(d) ==
  CASE d = "syntax" -> "security"
    [] d = "security" -> "style"
    [] d = "style" -> "performance"
    [] d = "performance" -> "best_practices"
    [] d = "best_practices" -> "documentation"
    [] d = "documentation" -> "summary"

\* the block that follows the try block of dimension d in review()
Following(d) ==
  CASE d = "syntax" -> "security"
    [] d = "security" -> "performance"
    [] d = "performance" -> "style"
    [] d = "style" -> "best_practices"
    [] d = "best_practices" -> "documentation"
    [] d = "documentation" -> "summary"

CallSeq ==
  /\ pc = "idle"
  /\ \E q \in SeqRequests, inc \in IncludeArgs :
       /\ code' = q.src
       /\ language' = q.lang
       /\ include_agents' = inc
  /\ pc' = "validate"
  /\ UNCHANGED <<metrics, dependencies, agent_results, summary, raised, calls>>
  /\ UNCHANGED probeVars

\* agent.review(code, language) is entered: the Reviewer is called
BeginCall(d) ==
  /\ pc = d
  /\ probe = <<>>
  /\ Selected(include_agents, d)
  /\ \E o \in Outcomes(d) : probe' = <<[dim |-> d, outcome |-> o]>>
  /\ UNCHANGED probe_out
  /\ UNCHANGED reviewVars

\* the call returns or raises: the entry of d is stored, on to the next block
EndCall(d) ==
  /\ pc = d
  /\ probe /= <<>>
  /\ agent_results' =
       (d :> TryReview(ReviewOf(d, code, language, probe[1].outcome))) @@ agent_results
  /\ calls' = Append(calls, probe[1])
  /\ probe' = <<>>
  /\ pc' = Following(d)
  /\ UNCHANGED <<code, language, include_agents, metrics, dependencies, summary, raised, probe_out>>

\* a block whose dimension is not selected
PassBlock(d) ==
  /\ pc = d
  /\ ~Selected(include_agents, d)
  /\ pc' = Following(d)
  /\ UNCHANGED <<code, language, include_agents, metrics, dependencies, agent_results,
                 summary, raised, calls>>
  /\ UNCHANGED probeVars

BeginSomeCall == \E d \in Dims : BeginCall(d)

EndSomeCall == \E d \in Dims : EndCall(d)

PassSomeBlock == \E d \in Dims : PassBlock(d)

NextSeq ==
  \/ CallSeq
  \/ ValidateInput
  \/ ComputeMetrics
  \/ BeginSomeCall
  \/ EndSomeCall
  \/ PassSomeBlock
  \/ Summarize

SpecSeq == Init /\ [][NextSeq]_vars

----------------------------------------------------------------------------
(* Properties of the order of the blocks (SpecSeq) *)

OrderIndex(d) == CHOOSE k \in 1..Len(DimOrder) : DimOrder[k] = d

Finished == DOMAIN agent_results

\* C29: the dimensions are processed one after another in the order syntax,
\* security, performance, style, best_practices, documentation: while the
\* Reviewer call of a dimension is in flight it is the only one, every
\* requested dimension before it has its entry and no other dimension has;
\* the Reviewer calls made so far are in that order; and the summary exists
\* only when no call is in flight and every requested dimension has its entry
ProcessedOneAfterAnother ==
  /\ Len(probe) <= 1
  /\ probe /= <<>> =>
       /\ summary = <<>>
       /\ Finished = {e \in RequestedDims : OrderIndex(e) < OrderIndex(probe[1].dim)}
  /\ \A i \in 1..Len(calls) : \A j \in 1..Len(calls) :
       i < j => OrderIndex(calls[i].dim) < OrderIndex(calls[j].dim)
  /\ pc \in Dims =>
       /\ summary = <<>>
       /\ Finished = {e \in RequestedDims : OrderIndex(e) < OrderIndex(pc)}
  /\ summary /= <<>> => (probe = <<>> /\ Finished = RequestedDims)

ProcessedOneAfterAnotherWitness ==
  /\ pc = "style"
  /\ probe /= <<>>
  /\ probe[1].dim = "style"
  /\ include_agents.none
  /\ Finished = {"syntax", "security", "performance"}
  /\ agent_results["security"].skipped
  /\ ~agent_results["performance"].skipped

====
